---- MODULE Spec2Model ----
(***************************************************************************)
(* The OVM message-execution engine of ethereumjs-vm: the EVM executor     *)
(* (packages/vm/lib/evm/evm.ts), the byte-code interpreter loop            *)
(* (lib/evm/interpreter.ts), the BLS12-381 map-Fp2-to-G2 precompile and    *)
(* the OVM StateManager bridge, as one state machine.                      *)
(*                                                                         *)
(* Byte buffers are run-length encoded: a buffer is a sequence of runs     *)
(* [b |-> byte, n |-> count], kept normalised (no empty run, no two        *)
(* adjacent runs of the same byte), so that equal buffers are equal values.*)
(* 256-bit words are scaled to WordBits bits.                              *)
(***************************************************************************)
EXTENDS Integers, Sequences, FiniteSets, TLC

VARIABLES
  accounts,             \* state view: address -> [balance, nonce, code, storage]
  checkpoints,          \* state view: stack of open checkpoints (snapshots)
  refund,               \* EVM._refund
  targetMessage,        \* EVM._targetMessage
  targetMessageResult,  \* EVM._targetMessageResult
  accountMessageResult, \* EVM._accountMessageResult
  frames,               \* executeMessage invocations in progress, outermost first
  parked,               \* the invocations of another executeMessage called from outside
  ret,                  \* what the executeMessage that returned last returned
  panic,                \* the untyped exception that left the outermost executeMessage
  calls,                \* number of executeMessage calls made on this executor
  config,               \* the fork configuration, the options of the VM, its executor
  isOvmCall,            \* EVM._isOvmCall (lib/evm)
  initialEMState,       \* EVM._initialEMState (lib/evm)
  initialSMState,       \* EVM._initialSMState (lib/evm)
  scan,                 \* Interpreter._getValidJumpDests applied to one code
  bridge,               \* the last call of OvmStateManager.handleCall and what was set
  events,               \* what vm._emit was called with since the outermost executeMessage began
  promise,              \* one input of precompile 12 and what its promise settled to
  task,                 \* the awaits of Interpreter.run at which another task took a turn
  unhandled,            \* the rejections of promises that nothing awaits
  ran                   \* what the runInterpreter that was called from outside returned

vars == <<accounts, checkpoints, refund, targetMessage, targetMessageResult,
          accountMessageResult, frames, parked, ret, panic, calls, config, scan,
          bridge, isOvmCall, initialEMState, initialSMState, events, promise, task,
          unhandled, ran>>

-----------------------------------------------------------------------------
(* Bounds of the model *)

\* 256-bit words (stack words, balances, MAX_INTEGER) scaled to this width
WordBits == 16
\* codes of up to this many bytes are pre-scanned in SpecJumps
MaxCodeLen == 4
\* executeMessage is called at most this many times on one executor
MaxCalls == 2
\* the calls of the bridge awaited at a time
MaxInFlight == 2

\* the nonce up to which the bridge is asked to increment
MaxNonce == 2

-----------------------------------------------------------------------------
(* Values *)

\* JavaScript's undefined, where a number or an address is expected
Undefined == -1

Min(a, b) == IF a < b THEN a ELSE b

RECURSIVE Pow2(_)
Pow2(n) == IF n = 0 THEN 1 ELSE 2 * Pow2(n - 1)

\* ethereumjs-util MAX_INTEGER, 2^256 - 1, at the scaled width
MAX_INTEGER == Pow2(WordBits) - 1

-----------------------------------------------------------------------------
(* Buffers *)

Run(b, n) == [b |-> b, n |-> n]

\* Buffer.alloc(n): n zero bytes
Zeros(n) == IF n <= 0 THEN << >> ELSE << Run(0, n) >>

RECURSIVE BufLen(_)
\* buf.length
BufLen(buf) == IF buf = << >> THEN 0 ELSE Head(buf).n + BufLen(Tail(buf))

RECURSIVE Norm(_)
Norm(buf) ==
  IF buf = << >> THEN << >>
  ELSE IF Head(buf).n = 0 THEN Norm(Tail(buf))
  ELSE LET r == Norm(Tail(buf)) IN
       IF r # << >> /\ Head(r).b = Head(buf).b
       THEN << Run(Head(buf).b, Head(buf).n + Head(r).n) >> \o Tail(r)
       ELSE << Head(buf) >> \o r

\* Buffer.concat([a, b])
BufCat(a, b) == Norm(a \o b)

RECURSIVE ByteAt(_, _)
\* buf[i], 0-based; Undefined past the end
ByteAt(buf, i) ==
  IF buf = << >> \/ i < 0 THEN Undefined
  ELSE IF i < Head(buf).n THEN Head(buf).b
  ELSE ByteAt(Tail(buf), i - Head(buf).n)

RECURSIVE Take(_, _)
Take(buf, n) ==
  IF n <= 0 \/ buf = << >> THEN << >>
  ELSE IF Head(buf).n <= n THEN << Head(buf) >> \o Take(Tail(buf), n - Head(buf).n)
  ELSE << Run(Head(buf).b, n) >>

RECURSIVE Drop(_, _)
Drop(buf, n) ==
  IF n <= 0 \/ buf = << >> THEN buf
  ELSE IF Head(buf).n <= n THEN Drop(Tail(buf), n - Head(buf).n)
  ELSE << Run(Head(buf).b, Head(buf).n - n) >> \o Tail(buf)

\* buf.slice(from, to): clamped to the buffer
BufSlice(buf, from, to) == Take(Drop(buf, from), to - from)

RECURSIVE Bytes(_)
\* the buffer of a plain sequence of bytes
Bytes(s) == IF s = << >> THEN << >> ELSE Norm(<< Run(Head(s), 1) >> \o Bytes(Tail(s)))

\* every byte of buf is zero (the buffer may be empty)
AllZero(buf) == \A k \in 1..Len(buf) : buf[k].b = 0

\* memory read of len bytes at offset: bytes past the end read as zero
MemRead(mem, offset, len) ==
  LET got == BufSlice(mem, offset, offset + len)
  IN  BufCat(got, Zeros(len - BufLen(got)))

\* buf with the bytes at offset.. replaced by data, zero-extended as needed
BufWrite(buf, offset, data) ==
  LET base == BufCat(buf, Zeros(offset + BufLen(data) - BufLen(buf)))
  IN  BufCat(BufCat(Take(base, offset), data), Drop(base, offset + BufLen(data)))

-----------------------------------------------------------------------------
(* Opcode table and the jump-destination pre-scan *)

\* the opcode table of the VM (vm._opcodes): name, base fee, isAsync
opcodes(op) ==
  CASE op = 0   -> [name |-> "STOP", fee |-> 0, isAsync |-> FALSE]
    [] op = 51  -> [name |-> "CALLER", fee |-> 2, isAsync |-> FALSE]
    [] op = 54  -> [name |-> "CALLDATASIZE", fee |-> 2, isAsync |-> FALSE]
    [] op = 83  -> [name |-> "MSTORE8", fee |-> 3, isAsync |-> FALSE]
    [] op = 85  -> [name |-> "SSTORE", fee |-> 0, isAsync |-> TRUE]
    [] op = 86  -> [name |-> "JUMP", fee |-> 8, isAsync |-> FALSE]
    [] op = 87  -> [name |-> "JUMPI", fee |-> 10, isAsync |-> FALSE]
    [] op = 91  -> [name |-> "JUMPDEST", fee |-> 1, isAsync |-> FALSE]
    [] op \in 96..127 -> [name |-> "PUSH", fee |-> 3, isAsync |-> FALSE]
    [] op = 160 -> [name |-> "LOG", fee |-> 375, isAsync |-> FALSE]
    [] op = 240 -> [name |-> "CREATE", fee |-> 32000, isAsync |-> TRUE]
    [] op = 241 -> [name |-> "CALL", fee |-> 700, isAsync |-> TRUE]
    [] op = 243 -> [name |-> "RETURN", fee |-> 0, isAsync |-> FALSE]
    [] op = 253 -> [name |-> "REVERT", fee |-> 0, isAsync |-> FALSE]
    [] OTHER    -> [name |-> "INVALID", fee |-> 0, isAsync |-> FALSE]

\* Interpreter.lookupOpInfo: an opcode the table lacks reads as INVALID (0xfe)
lookupOpInfo(op) == opcodes(op)

RECURSIVE ScanFromShort(_, _, _)
\* the loop with the cursor advanced one byte too few over a PUSH
ScanFromShort(code, i, jumps) ==
  IF ~(i < BufLen(code)) THEN jumps
  ELSE LET curOpCode == lookupOpInfo(ByteAt(code, i)).name
           i2 == IF curOpCode = "PUSH" THEN i + (ByteAt(code, i) - 96) ELSE i
           j2 == IF curOpCode = "JUMPDEST" THEN Append(jumps, i2) ELSE jumps
       IN  ScanFromShort(code, i2 + 1, j2)

RECURSIVE ScanFrom(_, _, _)
\* the loop of _getValidJumpDests from cursor i on, jumps collected so far
ScanFrom(code, i, jumps) ==
  IF ~(i < BufLen(code)) THEN jumps
  ELSE LET curOpCode == lookupOpInfo(ByteAt(code, i)).name
           i2 == IF curOpCode = "PUSH" THEN i + (ByteAt(code, i) - 95) ELSE i
           j2 == IF curOpCode = "JUMPDEST" THEN Append(jumps, i2) ELSE jumps
       IN  ScanFrom(code, i2 + 1, j2)

\* Interpreter._getValidJumpDests
getValidJumpDests(code) == ScanFrom(code, 0, << >>)

-----------------------------------------------------------------------------
(* Errors *)

NoError == "none"

\* the ERROR kinds of lib/exceptions.ts: a VmError carries one of them
VmErrors == {"STOP", "REVERT", "OUT_OF_GAS", "INVALID_OPCODE", "STACK_UNDERFLOW",
             "STACK_OVERFLOW", "INVALID_JUMP", "STATIC_STATE_CHANGE",
             "CREATE_COLLISION", "VALUE_OVERFLOW", "INTERNAL_ERROR",
             "BLS_12_381_INVALID_INPUT_LENGTH", "BLS_12_381_POINT_NOT_ON_CURVE",
             "OVM_ERROR"}

\* exceptions that are not VmErrors (a plain Error or TypeError)
UntypedErrors == {"Error: Value overflow",
                  "Error: Execution failed to reach target address", "Error: listener",
                  "Error: no matching function", "Error: data out-of-bounds",
                  "TypeError: undefined returnValue", "TypeError: undefined _mcl"}

-----------------------------------------------------------------------------
(* Addresses, the contract registry and the state view *)

\* the externally owned account that sends the transactions
AddrUser == 1
\* an account without code
AddrPlain == 2
\* an account without code whose balance is MAX_INTEGER
AddrRich == 3
\* the address a create deploys to (Execution Manager storage slot 0x0f)
AddrNew == 4
\* a contract that is already deployed (nonce 1): creating at it collides
AddrTaken == 5
\* the contract the Execution Manager calls as the target of a transaction
AddrTarget == 6
\* a contract whose code earns a refund and then fails
AddrFailing == 7
\* an account whose wrapper code returns the 32-byte flag 0
AddrFalseCaller == 8
\* an account whose wrapper code writes the Execution Manager's storage through
\* the StateManager
AddrSetter == 9
\* the BLS12-381 map-Fp2-to-G2 precompile
AddrBls12MapG2 == 18
\* vm.contracts.OVM_ExecutionManager.address and OVM_StateManager.address
AddrExecutionManager == 208
AddrStateManager == 209

Addresses == {AddrUser, AddrPlain, AddrRich, AddrNew, AddrTaken, AddrTarget,
              AddrFailing, AddrFalseCaller, AddrSetter, AddrBls12MapG2,
              AddrExecutionManager,
              AddrStateManager}

\* storage: slot -> word, an absent slot reading as empty
StorageGet(storage, key) == IF key \in DOMAIN storage THEN storage[key] ELSE 0

\* a put of the empty value deletes the slot
StoragePut(storage, key, value) ==
  IF value = 0
  THEN [k \in (DOMAIN storage) \ {key} |-> storage[k]]
  ELSE [k \in (DOMAIN storage) \cup {key} |-> IF k = key THEN value ELSE storage[k]]

NoStorage == [k \in {} |-> 0]

\* StateManager.checkpoint / commit / revert
Checkpoint(w) == [w EXCEPT !.checkpoints = Append(@, w.accounts)]
Commit(w) == [w EXCEPT !.checkpoints = SubSeq(@, 1, Len(@) - 1)]
Revert(w) == [w EXCEPT !.accounts = w.checkpoints[Len(w.checkpoints)],
                       !.checkpoints = SubSeq(@, 1, Len(@) - 1)]

\* StateManager.putAccount: the account object handed in becomes the account,
\* with the codeHash and the storageRoot it was read with (code and storage
\* here); putContractCode, storage
PutAccount(w, addr, account) == [w EXCEPT !.accounts[addr] = account]
PutContractCode(w, addr, code) == [w EXCEPT !.accounts[addr].code = code]
PutContractStorage(w, addr, key, value) ==
  [w EXCEPT !.accounts[addr].storage = StoragePut(@, key, value)]
ClearContractStorage(w, addr) == [w EXCEPT !.accounts[addr].storage = NoStorage]

\* vm.getContract(address).name: the contract registry
getContract(addr) ==
  CASE addr = AddrExecutionManager -> "OVM_ExecutionManager"
    [] addr = AddrStateManager -> "OVM_StateManager"
    [] OTHER -> "undefined"

\* getPrecompile(address, common): the precompile registry
getPrecompile(addr) == IF addr = AddrBls12MapG2 THEN "bls12-map-fp2-to-g2" ELSE "undefined"

-----------------------------------------------------------------------------
(* Words and ABI words *)

WordMod == Pow2(WordBits)

RECURSIVE BufToIntAcc(_, _)
BufToIntAcc(buf, acc) ==
  IF buf = << >> THEN acc
  ELSE LET r == Head(buf) IN
       IF acc = 0 /\ r.b = 0 THEN BufToIntAcc(Tail(buf), 0)
       ELSE IF r.n = 1 THEN BufToIntAcc(Tail(buf), (acc * 256 + r.b) % WordMod)
       ELSE BufToIntAcc(<< Run(r.b, r.n - 1) >> \o Tail(buf), (acc * 256 + r.b) % WordMod)

\* new BN(buf): the big-endian number of a buffer, as a word
BufToInt(buf) == BufToIntAcc(buf, 0)

RECURSIVE IntToBytes(_)
\* the big-endian bytes of a number, without leading zeros
IntToBytes(v) == IF v = 0 THEN << >> ELSE Append(IntToBytes(v \div 256), v % 256)

\* a 32-byte ABI word holding v
Word32(v) == LET bs == IntToBytes(v) IN BufCat(Zeros(32 - Len(bs)), Bytes(bs))

-----------------------------------------------------------------------------
(* Messages and results *)

\* new Message(opts): codeAddress defaults to `to`
Message(caller, to, value, data, gasLimit, depth) ==
  [caller |-> caller, to |-> to, value |-> value, data |-> data,
   code |-> << >>, codeSet |-> FALSE, isCompiled |-> FALSE,
   gasLimit |-> gasLimit, depth |-> depth, isStatic |-> FALSE,
   delegatecall |-> FALSE, codeAddress |-> to,
   originalTargetAddress |-> Undefined, salt |-> Undefined,
   selfdestruct |-> {}]

\* an ExecResult literal as the executor writes it: the fields it does not set
\* are undefined; a pending one is a promise, which has none of the fields and
\* resolves to the ExecResult in resolved or is rejected with an exception
ExecResult(gasUsed, returnValue, exceptionError) ==
  [gasUsed |-> gasUsed, returnValue |-> returnValue,
   exceptionError |-> exceptionError, logs |-> << >>, logsSet |-> FALSE,
   selfdestruct |-> {}, gasRefund |-> Undefined, gas |-> Undefined,
   pending |-> FALSE, resolved |-> << >>, rejected |-> NoError]

EVMResult(gasUsed, createdAddress, execResult) ==
  [gasUsed |-> gasUsed, createdAddress |-> createdAddress, execResult |-> execResult]

\* an out-of-gas result that charges nothing
OOGResultFree(gasLimit) == ExecResult(0, << >>, "OUT_OF_GAS")

\* OOGResult(gasLimit)
OOGResult(gasLimit) == ExecResult(gasLimit, << >>, "OUT_OF_GAS")

\* `VmErrorResult` as 12-bls12-map-fp2-to-g2.ts imports it from '../evm', which
\* exports no such name: the binding is undefined and a call of it throws
VmErrorResult(error, gasUsed) == "TypeError: VmErrorResult is not a function"

\* the selector of ExecutionManager.run, which toOvmMessage puts before the data
RunSelector == Bytes(<< 155, 227, 173, 103 >>)

\* Message.toOvmMessage: the message as a call of the Execution Manager
toOvmMessage(m) ==
  [m EXCEPT !.to = AddrExecutionManager, !.codeAddress = AddrExecutionManager,
            !.data = BufCat(RunSelector, m.data),
            !.originalTargetAddress = m.to]

\* Message.isTargetMessage: the depth/caller pattern of the user-visible target
isTargetMessage(m) == m.depth >= 2 /\ m.caller = AddrExecutionManager

\* a latch that takes every message of the pattern
latchesAgain(w, m) == isTargetMessage(m)

\* EVM.executeMessage: `!this._targetMessage && message.isTargetMessage()`
latches(w, m) == w.targetMessage = << >> /\ isTargetMessage(m)

-----------------------------------------------------------------------------
(* The BLS12-381 map-Fp2-to-G2 precompile *)

\* gasPrices.Bls12381MapG2Gas
Bls12381MapG2Gas == 110000

\* Fp2Point.mapToG2 and BLS12_381_FromG2Point: four 64-byte field elements
MapToG2(data) == BufCat(BufCat(BufSlice(data, 0, 64), BufSlice(data, 64, 128)),
                        BufCat(BufSlice(data, 64, 128), BufSlice(data, 0, 64)))

\* precompile 12 on opts = [data, gasLimit, hasVM]: what the promise it returns
\* settles to, [thrown, result]; opts._VM._mcl is read first, which throws a
\* TypeError when opts has no _VM; the two error branches call VmErrorResult,
\* which throws, so the promise of the async function rejects
Bls12MapFp2ToG2(opts) ==
  LET gasUsed == Bls12381MapG2Gas
      Resolves(r) == [thrown |-> NoError, result |-> << r >>]
      Rejects(e) == [thrown |-> e, result |-> << >>]
  IN
  IF ~opts.hasVM THEN Rejects("TypeError: undefined _mcl")
  ELSE IF BufLen(opts.data) # 128
  THEN Rejects(VmErrorResult("BLS_12_381_INVALID_INPUT_LENGTH", gasUsed))
  ELSE IF ~AllZero(BufSlice(opts.data, 0, 16)) \/ ~AllZero(BufSlice(opts.data, 64, 80))
  THEN Rejects(VmErrorResult("BLS_12_381_POINT_NOT_ON_CURVE", gasUsed))
  ELSE Resolves(ExecResult(gasUsed, MapToG2(opts.data), NoError))

\* `typeof code === 'function'`: of the values the model hands to
\* runPrecompile (undefined, a buffer of byte code, what getPrecompile
\* returned) the precompile is the function
IsFunction(code) == code = "bls12-map-fp2-to-g2"

\* EVM.runPrecompile: [thrown, result]; a code that is not a function throws
\* at once; else opts holds data, gasLimit and _common, and code(opts) of an
\* async function is a promise, which runPrecompile returns as it is
runPrecompile(code, data, gasLimit) ==
  LET opts == [data |-> data, gasLimit |-> gasLimit, hasVM |-> FALSE]
      settled == Bls12MapFp2ToG2(opts)
  IN  IF ~IsFunction(code)
      THEN [thrown |-> "Error: Invalid precompile", result |-> << >>]
      ELSE [thrown |-> NoError,
            result |-> << [ExecResult(Undefined, << >>, NoError) EXCEPT
                             !.pending = TRUE, !.resolved = settled.result,
                             !.rejected = settled.thrown] >>]

-----------------------------------------------------------------------------
(* The OVM StateManager bridge (OvmStateManager) *)

\* iface.getFunction(methodId).name; "undefined" stands for its throwing
getFunction(methodId) ==
  CASE methodId = Bytes(<< 57, 229, 3, 171 >>) -> "setStorage"
    [] methodId = Bytes(<< 98, 197, 16, 163 >>) -> "getStorage"
    [] methodId = Bytes(<< 73, 103, 112, 133 >>) -> "getStorageView"
    [] methodId = Bytes(<< 14, 125, 15, 255 >>) -> "getOvmContractNonce"
    [] methodId = Bytes(<< 215, 181, 85, 94 >>) -> "getCodeContractBytecode"
    [] methodId = Bytes(<< 103, 187, 66, 46 >>) -> "registerCreatedContract"
    [] methodId = Bytes(<< 217, 9, 170, 83 >>) -> "incrementOvmContractNonce"
    [] methodId = Bytes(<< 61, 236, 93, 133 >>) -> "getCodeContractAddressFromOvmAddress"
    [] methodId = Bytes(<< 107, 139, 87, 225 >>) -> "associateCodeContract"
    [] OTHER -> "undefined"

\* number of 32-byte arguments of a StateManager function
ArgCount(name) ==
  CASE name = "setStorage" -> 3
    [] name \in {"getStorage", "getStorageView", "associateCodeContract"} -> 2
    [] OTHER -> 1

\* the i-th (0-based) 32-byte argument of the call data
ArgWord(data, i) == BufToInt(BufSlice(data, 4 + 32 * i, 36 + 32 * i))

\* a view that returns the stored bytes as they are, without the 32-byte width
getStorageViewUnpadded(w, addr, slot) ==
  Bytes(IntToBytes(StorageGet(w.accounts[addr].storage, slot)))

\* OvmStateManager.getStorageView
getStorageView(w, addr, slot) == Word32(StorageGet(w.accounts[addr].storage, slot))

\* OvmStateManager.getOvmContractNonce: the nonce, 0x00 for the empty buffer
getOvmContractNonce(w, addr) ==
  LET nonce == IntToBytes(w.accounts[addr].nonce)
  IN  IF Len(nonce) # 0 THEN Word32(BufToInt(Bytes(nonce))) ELSE Word32(0)

\* an increment that does not write the account back
incrementOvmContractNonceLost(w, addr, account) == w

\* OvmStateManager.incrementOvmContractNonce once getAccount has answered
\* with account: the nonce of that object is raised and the object written,
\* with the code and the storage it was read with
incrementOvmContractNonce(w, addr, account) ==
  PutAccount(w, addr, [account EXCEPT !.nonce = @ + 1])

\* ABI encoding of one `bytes` value
EncodeBytes(buf) ==
  LET len == BufLen(buf)
      pad == (32 - (len % 32)) % 32
  IN  BufCat(BufCat(Word32(32), Word32(len)), BufCat(buf, Zeros(pad)))

\* OvmStateManager.handleCall up to the await of its handler: the call data is
\* decoded and the handler has made its call of the state view, a write for
\* setStorage and a read for the others; held is the account object
\* incrementOvmContractNonce holds while it waits for getAccount;
\* [w, thrown, returnValue, held]
handleCallBegin(w, m) ==
  LET name == getFunction(BufSlice(m.data, 0, 4))
      a0 == ArgWord(m.data, 0)
      a1 == ArgWord(m.data, 1)
      a2 == ArgWord(m.data, 2)
      Ok(w2, out) == [w |-> w2, thrown |-> NoError, returnValue |-> out, held |-> << >>]
  IN
  IF name = "undefined"
  THEN [w |-> w, thrown |-> "Error: no matching function", returnValue |-> << >>,
        held |-> << >>]
  ELSE IF BufLen(m.data) < 4 + 32 * ArgCount(name)
  THEN [w |-> w, thrown |-> "Error: data out-of-bounds", returnValue |-> << >>,
        held |-> << >>]
  ELSE CASE name = "setStorage" -> Ok(PutContractStorage(w, a0, a1, a2), << >>)
         [] name \in {"getStorage", "getStorageView"} -> Ok(w, getStorageView(w, a0, a1))
         [] name = "getOvmContractNonce" -> Ok(w, getOvmContractNonce(w, a0))
         [] name = "getCodeContractBytecode" -> Ok(w, EncodeBytes(w.accounts[a0].code))
         [] name = "incrementOvmContractNonce" ->
              [Ok(w, << >>) EXCEPT !.held = << [addr |-> a0, account |-> w.accounts[a0]] >>]
         [] name = "getCodeContractAddressFromOvmAddress" -> Ok(w, Word32(a0))
         [] OTHER -> Ok(w, << >>)

\* the handler resumes on the state view w: incrementOvmContractNonce writes
\* the account it holds, the others have nothing left to do
handleCallResume(w, held) ==
  IF held = << >> THEN w
  ELSE incrementOvmContractNonce(w, held[1].addr, held[1].account)

\* OvmStateManager.handleCall awaited by a caller that lets nothing else run
\* in between: [w, thrown, returnValue]
handleCall(w, m) ==
  LET b == handleCallBegin(w, m)
  IN  [w |-> handleCallResume(b.w, b.held), thrown |-> b.thrown,
       returnValue |-> b.returnValue]

-----------------------------------------------------------------------------
(* Frames: one per executeMessage in progress *)

NoAwait == [kind |-> "none", outOffset |-> 0, outLength |-> 0]

\* what an executeMessage holds in its locals while it waits for the state
\* view: the account or the code it was handed, the address of the create, the
\* error of the credit, the message as _loadCode leaves it, the bridge's call
NoHeld ==
  [account |-> << >>, code |-> << >>, address |-> Undefined, error |-> NoError,
   loaded |-> << >>, bridge |-> << >>]

\* the locals of an executeMessage invocation, of its runInterpreter and of the
\* Interpreter and EEI it created; trap is what the current step has thrown,
\* exceptionError what Interpreter.run returned; cpEntry, stateEntry and refundEntry record the
\* state view and the refund counter as they were when the invocation began;
\* at names the await at which the invocation is suspended; result is what
\* the dispatch returned and out the result object as the exit has written to
\* it; closed, cpClosed and accountEntry record how the exit closed the
\* checkpoint, and what it found; direct marks a runInterpreter that was
\* called from outside, without an executeMessage
NewFrame(w, orig, m, isT) ==
  [origMsg |-> orig, msg |-> m, isTargetMessage |-> isT, isCreate |-> FALSE,
   phase |-> "enter", ranInterpreter |-> FALSE,
   cpEntry |-> Len(w.checkpoints), stateEntry |-> w.accounts,
   refundEntry |-> w.refund,
   programCounter |-> 0, opCode |-> 254, stack |-> << >>, memory |-> << >>,
   memoryWordCount |-> 0, highestMemCost |-> 0, validJumps |-> << >>,
   gasLeft |-> 0, logs |-> << >>, selfdestruct |-> {}, returnValue |-> << >>,
   oldRefund |-> 0, trap |-> NoError, exceptionError |-> NoError,
   await |-> NoAwait, steps |-> 0, at |-> "beforeMessage", held |-> NoHeld,
   result |-> EVMResult(0, Undefined, ExecResult(0, << >>, NoError)),
   out |-> EVMResult(0, Undefined, ExecResult(0, << >>, NoError)),
   closed |-> "none", cpClosed |-> 0, accountEntry |-> << >>, direct |-> FALSE]

Top(w) == w.frames[Len(w.frames)]
SetTop(w, f) == [w EXCEPT !.frames[Len(w.frames)] = f]
Push(w, f) == [w EXCEPT !.frames = Append(@, f)]
Pop(w) == [w EXCEPT !.frames = SubSeq(@, 1, Len(@) - 1)]

\* the dispatch of the frame produced this result, which executeMessage waits
\* for (evm.ts:224 and 227)
Done(f, result) ==
  [f EXCEPT !.phase = "done", !.at = "result", !.result = result, !.out = result]

-----------------------------------------------------------------------------
(* Events: vm._emit(name, data) hands data to the listeners registered for
   name, one after the other, and rejects when one of them throws *)

\* no listener registered
Quiet == [on |-> "none", does |-> "nothing"]

\* vm._emit: the event as the listeners receive it
emit(w, event) == [w EXCEPT !.events = Append(@, event)]

\* the listener registered for the event throws: the promise of _emit rejects
listenerThrows(w, name) == w.config.listener = [on |-> name, does |-> "throws"]

\* the listener registered for the event writes to the object it receives
listenerEdits(w, name) == w.config.listener = [on |-> name, does |-> "edits"]

\* the events of executeMessage, _executeCreate and Interpreter._runStepHook;
\* level is the number of executeMessage invocations in progress, cp the
\* number of checkpoints open when the event is emitted
BeforeMessage(w, m) ==
  [name |-> "beforeMessage", level |-> Len(w.frames) + 1, cp |-> Len(w.checkpoints),
   message |-> m]
AfterMessage(w, result) ==
  [name |-> "afterMessage", level |-> Len(w.frames), cp |-> Len(w.checkpoints),
   result |-> result]
NewContract(w, m) ==
  [name |-> "newContract", level |-> Len(w.frames) + 1, cp |-> Len(w.checkpoints),
   address |-> m.to, code |-> m.code, account |-> w.accounts[m.to]]
StepEvent(w, f, opCode) ==
  [name |-> "step", level |-> Len(w.frames), cp |-> Len(w.checkpoints),
   pc |-> f.programCounter, gasLeft |-> f.gasLeft, opCode |-> opCode,
   stack |-> f.stack, memoryWordCount |-> f.memoryWordCount, depth |-> f.msg.depth]

-----------------------------------------------------------------------------
(* EEI and the opcode handlers *)

\* EEI.useGas
useGas(f, amount) ==
  IF f.trap # NoError THEN f
  ELSE IF f.gasLeft < amount THEN [f EXCEPT !.gasLeft = 0, !.trap = "OUT_OF_GAS"]
  ELSE [f EXCEPT !.gasLeft = @ - amount]

\* subMemUsage of opFns: charges the growth of memory to the word count needed
subMemUsage(f, offset, length) ==
  IF f.trap # NoError \/ length = 0 THEN f
  ELSE LET newWords == (offset + length + 31) \div 32 IN
       IF newWords <= f.memoryWordCount THEN f
       ELSE LET cost == newWords * 3 + (newWords * newWords) \div 512
                f1 == IF cost > f.highestMemCost
                      THEN [useGas(f, cost - f.highestMemCost) EXCEPT !.highestMemCost = cost]
                      ELSE f
            IN  IF f1.trap # NoError THEN f1 ELSE [f1 EXCEPT !.memoryWordCount = newWords]

\* the n-th word from the top of the stack, 0 the top
Peek(f, n) == f.stack[Len(f.stack) - n]

\* Stack.popN: n words removed (the caller has checked the depth)
PopN(f, n) == [f EXCEPT !.stack = SubSeq(@, 1, Len(@) - n)]

\* Stack.push
PushWord(f, v) ==
  IF f.trap # NoError THEN f
  ELSE IF Len(f.stack) >= 1024 THEN [f EXCEPT !.trap = "STACK_OVERFLOW"]
  ELSE [f EXCEPT !.stack = Append(@, v)]

Trap(f, err) == IF f.trap # NoError THEN f ELSE [f EXCEPT !.trap = err]

\* operands each handler pops
Operands(name) ==
  CASE name \in {"MSTORE8", "SSTORE", "JUMPI", "LOG", "RETURN", "REVERT"} -> 2
    [] name = "JUMP" -> 1
    [] name = "CREATE" -> 3
    [] name = "CALL" -> 7
    [] OTHER -> 0

\* jump of JUMP and JUMPI
JumpTo(f, dest) ==
  IF dest > BufLen(f.msg.code) \/ ~(\E k \in 1..Len(f.validJumps) : f.validJumps[k] = dest)
  THEN Trap(f, "INVALID_JUMP")
  ELSE [f EXCEPT !.programCounter = dest]

\* maxCallGas: all but one 64th of the gas left
maxCallGas(gasLimit, gasLeft) == Min(gasLimit, gasLeft - (gasLeft \div 64))

NoChild == << >>

\* the handler of opFns for the opcode called name, on frame f whose base fee is
\* paid and whose program counter is advanced: [w, f, child], where child is the
\* message of the executeMessage the handler awaits, if any
Handler(w, f0, name) ==
  LET n  == Operands(name)
      a  == Peek(f0, 0)
      b  == Peek(f0, 1)
      c  == Peek(f0, 2)
      f  == PopN(f0, n)
      env == f0.msg
      Plain(f2) == [w |-> w, f |-> f2, child |-> NoChild]
  IN
  IF Len(f0.stack) < n THEN Plain(Trap(f0, "STACK_UNDERFLOW"))
  ELSE CASE name = "STOP" -> Plain(Trap(f, "STOP"))
    [] name = "CALLER" -> Plain(PushWord(f, env.caller))
    [] name = "CALLDATASIZE" -> Plain(PushWord(f, BufLen(env.data)))
    [] name = "JUMPDEST" -> Plain(f)
    [] name = "PUSH" ->
         LET numToPush == f.opCode - 95
             loaded == BufToInt(BufSlice(env.code, f.programCounter,
                                         f.programCounter + numToPush))
         IN  Plain(PushWord([f EXCEPT !.programCounter = @ + numToPush], loaded))
    [] name = "JUMP" -> Plain(JumpTo(f, a))
    [] name = "JUMPI" -> Plain(IF b # 0 THEN JumpTo(f, a) ELSE f)
    [] name = "MSTORE8" ->
         LET f1 == subMemUsage(f, a, 1)
         IN  Plain(IF f1.trap # NoError THEN f1
                   ELSE [f1 EXCEPT !.memory = BufWrite(@, a, Bytes(<< b % 256 >>))])
    [] name = "SSTORE" ->
         IF env.isStatic THEN Plain(Trap(f, "STATIC_STATE_CHANGE"))
         ELSE LET cur == StorageGet(w.accounts[env.to].storage, a)
                  f1 == IF b = 0 /\ cur # 0 THEN useGas(f, 5000)
                        ELSE IF b # 0 /\ cur = 0 THEN useGas(f, 20000)
                        ELSE useGas(f, 5000)
                  w1 == IF b = 0 /\ cur # 0 THEN [w EXCEPT !.refund = @ + 15000] ELSE w
              IN  IF f1.trap # NoError THEN Plain(f1)
                  ELSE [w |-> PutContractStorage(w1, env.to, a, b), f |-> f1,
                        child |-> NoChild]
    [] name = "LOG" ->
         IF env.isStatic THEN Plain(Trap(f, "STATIC_STATE_CHANGE"))
         ELSE LET f1 == useGas(subMemUsage(f, a, b), b * 8)
              IN  Plain(IF f1.trap # NoError THEN f1
                        ELSE [f1 EXCEPT !.logs = Append(@,
                                [address |-> env.to, data |-> MemRead(f.memory, a, b)])])
    [] name \in {"RETURN", "REVERT"} ->
         LET f1 == subMemUsage(f, a, b)
         IN  Plain(IF f1.trap # NoError THEN f1
                   ELSE Trap([f1 EXCEPT !.returnValue = MemRead(f.memory, a, b)],
                             IF name = "RETURN" THEN "STOP" ELSE "REVERT"))
    [] name = "CALL" ->
         LET toAddress == b
             value == c
             inOffset == Peek(f0, 3)
             inLength == Peek(f0, 4)
             outOffset == Peek(f0, 5)
             outLength == Peek(f0, 6)
             f1 == subMemUsage(subMemUsage(f, inOffset, inLength), outOffset, outLength)
             f2 == IF value # 0 THEN useGas(f1, 9000) ELSE f1
             gasLimit == maxCallGas(a, f2.gasLeft)
             msg == [Message(env.to, toAddress, value, MemRead(f.memory, inOffset, inLength),
                             gasLimit, env.depth + 1)
                     EXCEPT !.isStatic = env.isStatic, !.selfdestruct = f.selfdestruct]
         IN  IF env.isStatic /\ value # 0 THEN Plain(Trap(f, "STATIC_STATE_CHANGE"))
             ELSE IF f2.trap # NoError THEN Plain(f2)
             ELSE IF env.depth >= 1024 \/ w.accounts[env.to].balance < value
             THEN Plain(PushWord(f2, 0))
             ELSE [w |-> w,
                   f |-> [f2 EXCEPT !.phase = "await",
                            !.await = [kind |-> "call", outOffset |-> outOffset,
                                       outLength |-> outLength]],
                   child |-> << msg >>]
    [] name = "CREATE" ->
         LET value == a
             f1 == subMemUsage(f, b, c)
             gasLimit == maxCallGas(f1.gasLeft, f1.gasLeft)
             msg == [Message(env.to, Undefined, value, MemRead(f.memory, b, c),
                             gasLimit, env.depth + 1)
                     EXCEPT !.selfdestruct = f.selfdestruct]
             self == w.accounts[env.to]
         IN  IF env.isStatic THEN Plain(Trap(f, "STATIC_STATE_CHANGE"))
             ELSE IF f1.trap # NoError THEN Plain(f1)
             ELSE IF env.depth >= 1024 \/ self.balance < value
             THEN Plain(PushWord(f1, 0))
             ELSE [w |-> PutAccount(w, env.to, [self EXCEPT !.nonce = @ + 1]),
                   f |-> [f1 EXCEPT !.phase = "await",
                            !.await = [kind |-> "create", outOffset |-> 0,
                                       outLength |-> 0]],
                   child |-> << msg >>]

-----------------------------------------------------------------------------
(* The EVM executor *)

\* vm.contracts.mockOVM_ECDSAContractAccount.code: the wrapper calls back into
\* the Execution Manager with empty call data and returns the 32-byte flag 1
\*   PUSH1 0 PUSH1 0 PUSH1 0 PUSH1 0 PUSH1 0 PUSH1 EM PUSH2 0xffff CALL
\*   PUSH1 1 PUSH1 31 MSTORE8 PUSH1 32 PUSH1 0 RETURN
MockECDSACode ==
  Bytes(<< 96, 0, 96, 0, 96, 0, 96, 0, 96, 0, 96, 208, 97, 255, 255, 241,
           96, 1, 96, 31, 83, 96, 32, 96, 0, 243 >>)

\* common.param('gasPrices', 'createData')
createData == 200
\* common.param('vm', 'maxCodeSize')
maxCodeSize == 24576

\* common.gteHardfork('spuriousDragon') and vm.allowUnlimitedContractSize
gteSpuriousDragon(w) == w.config.spuriousDragon
allowUnlimitedContractSize(w) == w.config.allowUnlimitedContractSize

\* ethereumjs-util toBuffer(v) of a BN below 0: the releases up to 7.0.7 turn
\* it into the bytes of its magnitude (bn.js toArrayLike leaves the sign out),
\* the later ones throw; the release is the build's choice (config.toBuffer)
toBufferThrows(w, v) == v < 0 /\ w.config.toBuffer = "throws"
toBuffer(v) == IF v < 0 THEN -v ELSE v

\* EVM._reduceSenderBalance on the account object getAccount returned:
\* [w, thrown]; nothing compares the value with the balance
reduceSenderBalance(w, account, m) ==
  LET newBalance == account.balance - m.value IN
  IF toBufferThrows(w, newBalance)
  THEN [w |-> w, thrown |-> "Error: Cannot convert negative BN to buffer"]
  ELSE [w |-> PutAccount(w, m.caller, [account EXCEPT !.balance = toBuffer(newBalance)]),
        thrown |-> NoError]

\* a credit kept within 256 bits by wrapping around instead of failing
addToBalanceWrapped(w, toAccount, m) ==
  [w |-> PutAccount(w, m.to, [toAccount EXCEPT !.balance = (@ + m.value) % (MAX_INTEGER + 1)]),
   error |-> NoError]

\* EVM._addToBalance on the account object toAccount: [w, error]
addToBalance(w, toAccount, m) ==
  LET newBalance == toAccount.balance + m.value IN
  IF newBalance > MAX_INTEGER
  THEN [w |-> w, error |-> "VALUE_OVERFLOW"]
  ELSE [w |-> PutAccount(w, m.to, [toAccount EXCEPT !.balance = newBalance]), error |-> NoError]

\* EVM._loadCode
loadCode(w, m) ==
  IF m.codeSet THEN m
  ELSE IF getPrecompile(m.codeAddress) # "undefined"
  THEN [m EXCEPT !.codeSet = TRUE, !.isCompiled = TRUE]
  ELSE [m EXCEPT !.codeSet = TRUE, !.isCompiled = FALSE,
                 !.code = w.accounts[m.codeAddress].code]

\* EVM._generateAddress: the address in Execution Manager storage slot 0x0f
generateAddress(w, m) == StorageGet(w.accounts[AddrExecutionManager].storage, 15)

\* EVM.runInterpreter is called for the message of f: it asks for the account
\* of the contract and waits (evm.ts:468)
runInterpreter(w, f) ==
  [f EXCEPT !.phase = "interp", !.ranInterpreter = TRUE, !.at = "contract"]

\* EVM.runInterpreter resumed with the account, up to the loop of
\* Interpreter.run: the EEI with the whole gasLimit, the refund saved, the
\* jump destinations scanned
startInterpreter(w, f) ==
  [f EXCEPT !.gasLeft = f.msg.gasLimit, !.oldRefund = w.refund,
            !.selfdestruct = f.msg.selfdestruct,
            !.validJumps = getValidJumpDests(f.msg.code)]

\* _targetMessage is the message object itself (evm.ts:143): what _loadCode
\* and _executeCreate write to the message of the latched frame f shows in it
aliasTarget(w, f, m) ==
  IF f.isTargetMessage THEN [w EXCEPT !.targetMessage = << m >>] ELSE w

\* a collision check that looks at the code only
collidesByCode(toAccount) == BufLen(toAccount.code) # 0

\* the collision check of EVM._executeCreate: the account has a nonce above 0
\* or a codeHash other than that of the empty code
collides(toAccount) == toAccount.nonce > 0 \/ BufLen(toAccount.code) # 0

\* the rest of EVM._executeCreate, after runInterpreter returned result
finishCreate(w, f, result) ==
  LET m == f.msg
      totalGas == IF result.exceptionError = NoError
                  THEN result.gasUsed + BufLen(result.returnValue) * createData
                  ELSE result.gasUsed
      allowedCodeSize == ~(gteSpuriousDragon(w) /\ BufLen(result.returnValue) > maxCodeSize)
      result2 == IF totalGas <= m.gasLimit /\ (allowUnlimitedContractSize(w) \/ allowedCodeSize)
                 THEN [result EXCEPT !.gasUsed = totalGas]
                 ELSE [result EXCEPT !.returnValue = OOGResult(m.gasLimit).returnValue,
                                     !.gasUsed = OOGResult(m.gasLimit).gasUsed,
                                     !.exceptionError = OOGResult(m.gasLimit).exceptionError]
      w2 == IF result2.exceptionError = NoError /\ BufLen(result2.returnValue) # 0
            THEN PutContractCode(w, m.to, result2.returnValue)
            ELSE w
  IN  SetTop(w2, Done(f, EVMResult(result2.gasUsed, m.to, result2)))

-----------------------------------------------------------------------------
(* The executor of lib/evm: the operators that differ from those of
   packages/vm/lib/evm carry the suffix Lib *)

\* which of the two EVM classes of the repository the VM runs
IsLib(w) == w.config.executor = "lib/evm"

\* Message.isOvmEntryMessage: the message a transaction enters with
isOvmEntryMessage(m) == m.depth = 0

\* vm.getContractName(address)
getContractName(addr) ==
  CASE addr = AddrExecutionManager -> "ExecutionManager"
    [] addr = AddrStateManager -> "StateManager"
    [] OTHER -> "undefined"

\* _contracts.ExecutionManager.decodeFunctionData(data) finds no function for
\* call data without a selector
decodeFunctionDataThrows(data) == BufLen(data) < 4

\* lib EVM._reduceSenderBalance: the assignment of the new balance is commented
\* out, the account is written back as it was read; [w, thrown]
reduceSenderBalanceLib(w, account, m) ==
  [w |-> PutAccount(w, m.caller, account), thrown |-> NoError]

\* lib EVM._addToBalance on the account object toAccount: [w, thrown]; the
\* overflow is an Error, not a VmError, and the new balance is not assigned
addToBalanceLib(w, toAccount, m) ==
  LET newBalance == toAccount.balance + m.value IN
  IF newBalance > MAX_INTEGER
  THEN [w |-> w, thrown |-> "Error: Value overflow"]
  ELSE [w |-> PutAccount(w, m.to, toAccount), thrown |-> NoError]

\* ethereumjs-util generateAddress(caller, nonce), a hash, as a table on the
\* callers and nonces of the model: the nonce buffer 01 gives AddrNew
generateAddressOf(caller, nonce) == IF nonce = 1 THEN AddrNew ELSE AddrTaken

\* ethereumjs-util generateAddress2(caller, salt, code), a hash, as a table on
\* the one salted create of the model
generateAddress2Of(caller, salt, code) == AddrPlain

\* lib EVM._generateAddress: the address in Execution Manager storage slot 0x05
\* in an OVM call, else the hash of caller, salt and code for a message with a
\* salt, else the hash of the caller and of its nonce minus one, whose buffer
\* holds the magnitude
generateAddressLib(w, m) ==
  IF w.isOvmCall
  THEN StorageGet(w.accounts[AddrExecutionManager].storage, 5)
  ELSE IF m.salt # Undefined
  THEN generateAddress2Of(m.caller, m.salt, m.code)
  ELSE LET newNonce == w.accounts[m.caller].nonce - 1
       IN  generateAddressOf(m.caller, IF newNonce < 0 THEN -newNonce ELSE newNonce)

\* resetContractSnapshot leaving the accounts as they are
resetNothing(w, at) == w
\* lib EVM._resetContractSnapshot, called (from the await of afterMessage) or
\* resumed at the await named: the storage of the StateManager is cleared,
\* then the account of the Execution Manager is put back, then that of the
\* StateManager
resetContractSnapshot(w, at) ==
  CASE at = "afterMessage" -> ClearContractStorage(w, AddrStateManager)
    [] at = "resetStorage" ->
         PutAccount(w, AddrExecutionManager, w.initialEMState[1])
    [] at = "resetEM" ->
         PutAccount(w, AddrStateManager, w.initialSMState[1])

\* the rest of lib EVM._executeCreate, after runInterpreter returned result:
\* the code size is limited to 24576 bytes on every fork
finishCreateLib(w, f, result) ==
  LET m == f.msg
      totalGas == IF result.exceptionError = NoError
                  THEN result.gasUsed + BufLen(result.returnValue) * createData
                  ELSE result.gasUsed
      result2 == IF totalGas <= m.gasLimit
                    /\ (allowUnlimitedContractSize(w) \/ BufLen(result.returnValue) <= 24576)
                 THEN [result EXCEPT !.gasUsed = totalGas]
                 ELSE [result EXCEPT !.returnValue = OOGResult(m.gasLimit).returnValue,
                                     !.gasUsed = OOGResult(m.gasLimit).gasUsed,
                                     !.exceptionError = OOGResult(m.gasLimit).exceptionError]
      w2 == IF result2.exceptionError = NoError /\ BufLen(result2.returnValue) # 0
            THEN PutContractCode(w, m.to, result2.returnValue)
            ELSE w
  IN  SetTop(w2, Done(f, EVMResult(result2.gasUsed, m.to, result2)))

-----------------------------------------------------------------------------

\* a catch block that keeps STOP as an exception
runCatchStop(e) == e

\* the catch block of the loop of Interpreter.run: the exceptionError run
\* returns when a step has thrown e; STOP is not an exception, and anything
\* else, a VmError or not, is kept
runCatch(e) == IF e # "STOP" THEN e ELSE NoError

\* the gas charged without the whole-limit charge for errors
runGasUsedActual(gasLimit, gasLeft, err) == gasLimit - gasLeft

\* the gasUsed EVM.runInterpreter reports: what the EEI used, or the whole
\* gasLimit when run returned an exceptionError other than REVERT
runGasUsed(gasLimit, gasLeft, err) ==
  IF err # NoError /\ err # "REVERT" THEN gasLimit ELSE gasLimit - gasLeft

\* the end of Interpreter.run of frame f, whose last step has thrown f.trap
\* (nothing when the program counter ran off the code), then the rest of
\* EVM.runInterpreter, whose result goes to the caller outside that called it,
\* or to _executeCall, which returns it, or to _executeCreate, which returns
\* after the code deposit (it waits for putContractCode, evm.ts:441)
finishInterpreter(w, f) ==
  LET m == f.msg
      err == runCatch(f.trap)
      failed == err # NoError
      gasUsed == runGasUsed(m.gasLimit, f.gasLeft, err)
      result == [ExecResult(gasUsed, f.returnValue, err) EXCEPT
                   !.logs = IF failed THEN << >> ELSE f.logs,
                   !.logsSet = TRUE,
                   !.selfdestruct = IF failed THEN {} ELSE f.selfdestruct,
                   !.gas = f.gasLeft]
      w1 == IF failed THEN [w EXCEPT !.refund = f.oldRefund] ELSE w
      f1 == [f EXCEPT !.exceptionError = err]
  IN  IF f.direct THEN [Pop(w1) EXCEPT !.ran = << result >>]
      ELSE IF f.isCreate
      THEN IF IsLib(w) THEN finishCreateLib(w1, f1, result) ELSE finishCreate(w1, f1, result)
      ELSE SetTop(w1, Done(f1, EVMResult(result.gasUsed, Undefined, result)))

\* an install that does not look at the code the caller has
installMockAccountAlways(w, m, code) ==
  IF m.depth = 0 THEN PutContractCode(w, m.caller, MockECDSACode) ELSE w

\* EVM.executeMessage at depth 0: the mock ECDSA wrapper becomes the code of a
\* caller for which getContractCode returned no code
installMockAccount(w, m, code) ==
  IF m.depth = 0 /\ BufLen(code) = 0
  THEN PutContractCode(w, m.caller, MockECDSACode)
  ELSE w

\* the executeMessage of the top frame f waits at the await called at
Suspend(w, f, at) ==
  [w |-> SetTop(w, [f EXCEPT !.at = at]), thrown |-> NoError, returned |-> << >>]

\* the executeMessage of the top frame throws err
Throws(w, err) == [w |-> Pop(w), thrown |-> err, returned |-> << >>]

\* the executeMessage of the top frame returns result
Returns(w, result) == [w |-> Pop(w), thrown |-> NoError, returned |-> << result >>]

\* the entry of the executeMessage of the top frame is over: f has the result
\* of the dispatch or waits in runInterpreter
Entered(w, f) ==
  [w |-> SetTop(w, [f EXCEPT !.held = NoHeld]), thrown |-> NoError, returned |-> << >>]

\* executeMessage(m0) is called: it emits beforeMessage and waits for the
\* listeners
beginMessage(w0, m0) ==
  Push(emit(w0, BeforeMessage(w0, m0)), NewFrame(w0, m0, m0, FALSE))

\* EVM._executeCall is called: it asks for the account of the caller
callExecuteCall(w, f) ==
  Suspend(w, [f EXCEPT !.held.account = << w.accounts[f.msg.caller] >>], "caller")

\* EVM._executeCreate is called: it asks for the account of the caller
callExecuteCreate(w, f) ==
  Suspend(w, [f EXCEPT !.isCreate = TRUE,
                       !.held.account = << w.accounts[f.msg.caller] >>], "caller")

\* executeMessage of both executors from the rewrite of a depth-0 message to
\* its next await: the latch, and the call of what the message is dispatched to
latchMessage(w, f0, m) ==
  LET isT == latches(w, m)
      w1 == IF isT THEN [w EXCEPT !.targetMessage = << m >>] ELSE w
      f == [f0 EXCEPT !.msg = m, !.isTargetMessage = isT]
  IN
  IF m.to = Undefined THEN callExecuteCreate(w1, f)
  ELSE IF IsLib(w)
  THEN IF getContractName(m.to) = "ExecutionManager" /\ decodeFunctionDataThrows(m.data)
       THEN Throws(w1, "Error: no matching function")
       ELSE callExecuteCall(w1, f)
  ELSE Suspend(w1, [f EXCEPT !.held.code = w1.accounts[m.to].code], "toCode")

\* lib EVM._makeContractSnapshot, called by the frame f (which waits at
\* "checkpoint") or resumed with the account of the Execution Manager: it
\* asks for the account of the Execution Manager (part_003:510), assigns
\* it to _initialEMState and asks for that of the StateManager (513), whose
\* assignment is the first thing the next continuation does
makeContractSnapshot(w, f) ==
  IF f.at = "checkpoint"
  THEN Suspend(w, [f EXCEPT !.held.account = << w.accounts[AddrExecutionManager] >>],
               "snapshotEM")
  ELSE Suspend([w EXCEPT !.initialEMState = f.held.account],
               [f EXCEPT !.held.account = << w.accounts[AddrStateManager] >>],
               "snapshotSM")

\* the message executeMessage goes on with: at depth 0 the OVM message
ovmMessage(m) == IF m.depth = 0 THEN toOvmMessage(m) ELSE m

\* EVM.executeMessage of the top frame, resumed at the await it waits at and
\* run to its next await, to its throw or to the end of its entry: [w, thrown]
executeMessage(w) ==
  LET f == Top(w)
      m == f.msg
  IN
  CASE f.at = "beforeMessage" ->
         IF listenerThrows(w, "beforeMessage") THEN Throws(w, "Error: listener")
         ELSE Suspend(Checkpoint(w), f, "checkpoint")
    [] f.at = "checkpoint" /\ ~IsLib(w) ->
         IF m.depth = 0
         THEN Suspend(w, [f EXCEPT !.held.code = w.accounts[m.caller].code], "callerCode")
         ELSE latchMessage(w, f, m)
    [] f.at = "checkpoint" /\ IsLib(w) ->
         IF isOvmEntryMessage(m)
         THEN makeContractSnapshot([w EXCEPT !.isOvmCall = TRUE],
                                   [f EXCEPT !.msg = toOvmMessage(m)])
         ELSE latchMessage(w, f, m)
    [] f.at = "snapshotEM" -> makeContractSnapshot(w, f)
    [] f.at = "snapshotSM" ->
         latchMessage([w EXCEPT !.initialSMState = f.held.account], f, m)
    [] f.at = "callerCode" ->
         LET w1 == installMockAccount(w, m, f.held.code) IN
         IF BufLen(f.held.code) = 0 THEN Suspend(w1, f, "wrapper")
         ELSE latchMessage(w1, f, ovmMessage(m))
    [] f.at = "wrapper" -> latchMessage(w, f, ovmMessage(m))
    [] f.at = "toCode" ->
         LET target == IF f.held.code = MockECDSACode THEN "mockOVM_ECDSAContractAccount"
                       ELSE getContract(m.to)
             b == handleCallBegin(w, m)
         IN  IF target = "OVM_StateManager"
             THEN Suspend(b.w, [f EXCEPT !.held.bridge =
                                  << [thrown |-> b.thrown, returnValue |-> b.returnValue,
                                      held |-> b.held] >>], "bridge")
             ELSE callExecuteCall(w, f)
    [] f.at = "bridge" ->
         LET b == f.held.bridge[1] IN
         IF b.thrown # NoError THEN Throws(w, b.thrown)
         ELSE IF b.held # << >>
         THEN Suspend(handleCallResume(w, b.held),
                      [f EXCEPT !.held.bridge[1].held = << >>], "bridge")
         ELSE Entered(w, Done(f, EVMResult(0, Undefined,
                                           ExecResult(0, b.returnValue, NoError))))

\* EVM._executeCall of the top frame, resumed at the await it waits at and run
\* to its next await, to its throw, to its early exit or to the start of the
\* interpreter: [w, thrown]
executeCall(w) ==
  LET f == Top(w)
      m == f.msg
      readTo(w1) == Suspend(w1, [f EXCEPT !.held.account = << w1.accounts[m.to] >>],
                            "toAccount")
      loaded == loadCode(w, m)
      callLoadCode ==
        IF loaded.isCompiled \/ m.codeSet
        THEN Suspend(aliasTarget(w, f, loaded),
                     [f EXCEPT !.msg = loaded, !.held.loaded = << loaded >>], "code")
        ELSE Suspend(w, [f EXCEPT !.held.loaded = << loaded >>], "code")
      add == IF IsLib(w)
             THEN LET a == addToBalanceLib(w, f.held.account[1], m)
                  IN  [w |-> a.w, error |-> a.thrown]
             ELSE addToBalance(w, f.held.account[1], m)
      debit == IF IsLib(w) THEN reduceSenderBalanceLib(w, f.held.account[1], m)
               ELSE reduceSenderBalance(w, f.held.account[1], m)
      m2 == f.held.loaded[1]
      f2 == [f EXCEPT !.msg = m2]
      w2 == aliasTarget(w, f, m2)
      errorMessage == f.held.error
  IN
  CASE f.at = "caller" ->
         IF m.delegatecall THEN readTo(w)
         ELSE IF debit.thrown # NoError THEN Throws(w, debit.thrown)
         ELSE Suspend(debit.w, f, "debited")
    [] f.at = "debited" -> readTo(w)
    [] f.at = "toAccount" ->
         IF m.delegatecall THEN callLoadCode
         ELSE Suspend(add.w, [f EXCEPT !.held.error = add.error], "credited")
    [] f.at = "credited" ->
         IF IsLib(w) /\ errorMessage # NoError THEN Throws(w, errorMessage)
         ELSE callLoadCode
    [] f.at = "code" ->
         IF (~m2.isCompiled /\ BufLen(m2.code) = 0) \/ errorMessage # NoError
         THEN Entered(w2, Done(f2, EVMResult(0, Undefined,
                                             ExecResult(0, << >>, errorMessage))))
         ELSE IF m2.isCompiled
         THEN LET called == runPrecompile(getPrecompile(m2.codeAddress), m2.data,
                                          m2.gasLimit)
                  result == called.result[1]
              IN  IF called.thrown # NoError THEN Throws(w2, called.thrown)
                  ELSE Entered([w2 EXCEPT !.unhandled = @ \cup ({result.rejected} \ {NoError})],
                               Done(f2, EVMResult(result.gasUsed, Undefined, result)))
         ELSE Entered(w2, runInterpreter(w2, f2))

\* EVM._executeCreate of the top frame, resumed at the await it waits at and
\* run to its next await, to its throw, to its early exits or to the start of
\* the interpreter: [w, thrown]
executeCreate(w) ==
  LET f == Top(w)
      m == f.msg
      rewritten == [m EXCEPT !.code = m.data, !.codeSet = TRUE, !.data = << >>]
      address == IF IsLib(w) THEN generateAddressLib(w, rewritten)
                 ELSE generateAddress(w, rewritten)
      addressed == [m EXCEPT !.to = f.held.address]
      toAccount == f.held.account[1]
      bump == IF IsLib(w) THEN ~w.isOvmCall ELSE gteSpuriousDragon(w)
      bumped == [toAccount EXCEPT !.nonce = IF bump THEN @ + 1 ELSE @]
      add == IF IsLib(w)
             THEN LET a == addToBalanceLib(w, bumped, m)
                  IN  [w |-> a.w, error |-> a.thrown]
             ELSE addToBalance(w, bumped, m)
      debit == IF IsLib(w) THEN reduceSenderBalanceLib(w, f.held.account[1], m)
               ELSE reduceSenderBalance(w, f.held.account[1], m)
      errorMessage == f.held.error
  IN
  CASE f.at = "caller" ->
         IF debit.thrown # NoError THEN Throws(w, debit.thrown)
         ELSE Suspend(debit.w, f, "debited")
    [] f.at = "debited" ->
         Suspend(aliasTarget(w, f, rewritten),
                 [f EXCEPT !.msg = rewritten, !.held.address = address], "address")
    [] f.at = "address" ->
         Suspend(aliasTarget(w, f, addressed),
                 [f EXCEPT !.msg = addressed,
                           !.held.account = << w.accounts[addressed.to] >>], "collision")
    [] f.at = "collision" ->
         IF collides(toAccount)
         THEN Entered(w, Done(f, EVMResult(m.gasLimit, m.to,
                                  ExecResult(m.gasLimit, << >>, "CREATE_COLLISION"))))
         ELSE Suspend(ClearContractStorage(w, m.to), f, "cleared")
    [] f.at = "cleared" -> Suspend(emit(w, NewContract(Pop(w), m)), f, "newContract")
    [] f.at = "newContract" ->
         IF listenerThrows(w, "newContract") THEN Throws(w, "Error: listener")
         ELSE Suspend(w, [f EXCEPT !.held.account = << w.accounts[m.to] >>], "created")
    [] f.at = "created" ->
         Suspend(add.w, [f EXCEPT !.held.error = add.error], "credited")
    [] f.at = "credited" ->
         IF IsLib(w) /\ errorMessage # NoError THEN Throws(w, errorMessage)
         ELSE IF BufLen(m.code) = 0
         THEN Entered(w, Done(f, EVMResult(0, m.to, ExecResult(0, << >>, errorMessage))))
         ELSE Entered(w, runInterpreter(w, f))

\* the awaits of the body of executeMessage, before _executeCall or
\* _executeCreate is called
OwnAwaits == {"beforeMessage", "checkpoint", "snapshotEM", "snapshotSM", "callerCode",
              "wrapper", "toCode", "bridge"}

\* the entry of the executeMessage of the top frame goes on from the await it
\* waits at: [w, thrown]
enterStep(w) ==
  IF Top(w).at \in OwnAwaits THEN executeMessage(w)
  ELSE IF Top(w).isCreate THEN executeCreate(w)
  ELSE executeCall(w)


\* a comparison that takes a return value of fewer than 32 zero bytes as false
ReturnedFalseShort(result) ==
  AllZero(BufSlice(result.execResult.returnValue, 0, 32))

\* result.execResult.returnValue.slice(0, 32).toString('hex') == '00'.repeat(32)
ReturnedFalse(result) ==
  LET head == BufSlice(result.execResult.returnValue, 0, 32)
  IN  BufLen(head) = 32 /\ AllZero(head)

\* a strip of the flags that does not look at the error of the target
returnDataAlways(tr) ==
  LET data == tr.execResult.returnValue
  IN  IF BufLen(data) >= 160 THEN BufSlice(data, 160, BufLen(data)) ELSE data

\* the returnData of the depth-0 exit: the return value of the target, without
\* its first 160 bytes (the flags of an OVM revert) when the target carries an
\* exceptionError and returned at least 160 bytes
returnData(tr) ==
  LET data == tr.execResult.returnValue
  IN  IF tr.execResult.exceptionError # NoError /\ BufLen(data) >= 160
      THEN BufSlice(data, 160, BufLen(data))
      ELSE data

\* the logs without those of the Execution Manager
FilterLogs(logs) == SelectSeq(logs, LAMBDA log : log.address # AddrExecutionManager)

\* a listener that writes to the result it receives: it replaces the return
\* value by the one byte ff
editResult(w, result) ==
  IF listenerEdits(w, "afterMessage")
  THEN [result EXCEPT !.execResult.returnValue = Bytes(<< 255 >>)]
  ELSE result

\* an executeMessage that goes to its return without emitting afterMessage
emitAfterMessageSilent(w, f, result, closed) ==
  Suspend(w, [f EXCEPT !.out = result, !.closed = closed], "afterMessage")

\* the end of EVM.executeMessage of the frame f: afterMessage is emitted with
\* the result, which is the object _targetMessageResult and
\* _accountMessageResult hold when this message has set them, and
\* executeMessage waits for the listeners (evm.ts:298)
emitAfterMessage(w, f, result, closed) ==
  LET edited == editResult(w, result)
      w1 == emit(w, AfterMessage(w, result))
      w2 == IF f.isTargetMessage THEN [w1 EXCEPT !.targetMessageResult = << edited >>] ELSE w1
      w3 == IF f.msg.depth = 1 /\ f.msg.to # AddrStateManager
            THEN [w2 EXCEPT !.accountMessageResult = << edited >>]
            ELSE w2
  IN  Suspend(IF listenerEdits(w, "afterMessage") THEN w3 ELSE w1,
              [f EXCEPT !.out = edited, !.closed = closed], "afterMessage")

\* EVM.executeMessage of the top frame, whose dispatch has its result,
\* resumed at the await it waits at and run to its next await, to its throw or
\* to its return: from the result of the dispatch the refund is attached and
\* the checkpoint closed (evm.ts:237 and 239); from there the latches, the
\* depth-0 reconciliation and afterMessage (298); from there the return;
\* [w, thrown, returned]
exitMessage(w) ==
  LET f == Top(w)
      message == f.msg
      r1 == [f.out EXCEPT !.execResult.gasRefund = w.refund]
      err == r1.execResult.exceptionError
      r2 == IF err # NoError
            THEN [r1 EXCEPT !.execResult.logs = << >>, !.execResult.logsSet = TRUE]
            ELSE r1
      w1 == IF err # NoError THEN Revert(w) ELSE Commit(w)
      w2 == IF f.isTargetMessage THEN [w EXCEPT !.targetMessageResult = << f.out >>] ELSE w
      latched == w2.targetMessageResult # << >>
      tr == w2.targetMessageResult[1]
      am == w2.accountMessageResult
      throws == message.depth = 0 /\ latched /\ am # << >> /\ am[1].execResult.pending
      EOAReturnedFalse == am # << >> /\ ReturnedFalse(am[1])
      wasDeployException == EOAReturnedFalse /\ tr.execResult.exceptionError = NoError
      exceptionError == IF wasDeployException THEN "REVERT"
                        ELSE tr.execResult.exceptionError
      r3 == IF message.depth # 0 THEN f.out
            ELSE IF latched
            THEN [f.out EXCEPT !.createdAddress = tr.createdAddress,
                               !.execResult.logs = IF f.out.execResult.logsSet
                                                   THEN FilterLogs(@) ELSE @,
                               !.execResult.returnValue = returnData(tr),
                               !.execResult.exceptionError = exceptionError]
            ELSE [f.out EXCEPT !.execResult.exceptionError = "OVM_ERROR"]
      w3 == IF message.depth = 1 /\ message.to # AddrStateManager
            THEN [w2 EXCEPT !.accountMessageResult = << r3 >>]
            ELSE w2
  IN
  CASE f.at = "result" ->
         Suspend(w1, [f EXCEPT !.out = r2, !.cpClosed = Len(w.checkpoints),
                               !.closed = IF err # NoError THEN "revert" ELSE "commit",
                               !.accountEntry = w.accountMessageResult], "closed")
    [] f.at = "closed" ->
         IF throws THEN Throws(w2, "TypeError: undefined returnValue")
         ELSE emitAfterMessage(w3, f, r3, f.closed)
    [] f.at = "afterMessage" ->
         IF listenerThrows(w, "afterMessage") THEN Throws(w, "Error: listener")
         ELSE Returns(w, f.out)

\* the logs of the target with the address of each set to the target's
RemapLogs(logs, address) ==
  [i \in DOMAIN logs |-> [logs[i] EXCEPT !.address = address]]

\* lib EVM.executeMessage from the result r0 of the dispatch to the await of
\* its revert or commit (part_003:192 and 194): the refund attached, the
\* logs of a failure dropped, the checkpoint closed
closeMessageLib(w, r0) ==
  LET f == Top(w)
      r1 == [r0 EXCEPT !.execResult.gasRefund = w.refund]
      err == r1.execResult.exceptionError
      cleared == IF err # NoError
                 THEN [r1 EXCEPT !.execResult.logs = << >>, !.execResult.logsSet = TRUE]
                 ELSE r1
  IN  Suspend(IF err # NoError THEN Revert(w) ELSE Commit(w),
              [f EXCEPT !.out = cleared, !.cpClosed = Len(w.checkpoints),
                        !.closed = IF err # NoError THEN "revert" ELSE "commit",
                        !.accountEntry = w.accountMessageResult], "closed")

\* lib EVM.executeMessage of the top frame, whose dispatch has its result,
\* resumed at the await it waits at and run to its next await, to its throw or
\* to its return: the bridge is called for a message to the StateManager and
\* what it returns replaces the return value; the checkpoint is closed;
\* afterMessage is emitted (part_003:197); then the latch and, for an entry
\* message with a target, the reset of the snapshot with its three awaits and
\* the composition of the result; [w, thrown, returned]
exitMessageLib(w) ==
  LET f == Top(w)
      message == f.msg
      b == handleCallBegin(w, message)
      answer == f.held.bridge[1]
      err == f.out.execResult.exceptionError
      w2 == IF f.isTargetMessage THEN [w EXCEPT !.targetMessageResult = << f.out >>] ELSE w
      entry == isOvmEntryMessage(message)
      tr == w.targetMessageResult[1]
      targetTo == w.targetMessage[1].to
      logs == IF tr.execResult.logsSet
              THEN RemapLogs(tr.execResult.logs,
                             IF targetTo # Undefined THEN targetTo ELSE tr.createdAddress)
              ELSE << >>
      r3 == [f.out EXCEPT !.createdAddress = tr.createdAddress,
                          !.execResult.returnValue = tr.execResult.returnValue,
                          !.execResult.logs = logs,
                          !.execResult.logsSet = TRUE]
  IN
  CASE f.at = "result" ->
         IF ~f.isCreate /\ getContractName(message.to) = "StateManager"
         THEN Suspend(b.w, [f EXCEPT !.held.bridge =
                              << [thrown |-> b.thrown, returnValue |-> b.returnValue,
                                  held |-> b.held] >>], "handleCall")
         ELSE closeMessageLib(w, f.out)
    [] f.at = "handleCall" ->
         IF answer.thrown # NoError THEN Throws(w, answer.thrown)
         ELSE IF answer.held # << >>
         THEN Suspend(handleCallResume(w, answer.held),
                      [f EXCEPT !.held.bridge[1].held = << >>], "handleCall")
         ELSE closeMessageLib(w, [f.out EXCEPT !.execResult.returnValue =
                                                  answer.returnValue])
    [] f.at = "closed" ->
         Suspend(emit(w, AfterMessage(w, f.out)),
                 [f EXCEPT !.out = editResult(w, f.out)], "afterMessage")
    [] f.at = "afterMessage" ->
         IF listenerThrows(w, "afterMessage") THEN Throws(w, "Error: listener")
         ELSE IF entry /\ w2.targetMessageResult # << >>
         THEN Suspend(resetContractSnapshot(w2, f.at), f, "resetStorage")
         ELSE IF entry /\ err = NoError
         THEN Throws(w2, "Error: Execution failed to reach target address")
         ELSE Returns(w2, f.out)
    [] f.at = "resetStorage" -> Suspend(resetContractSnapshot(w, f.at), f, "resetEM")
    [] f.at = "resetEM" -> Suspend(resetContractSnapshot(w, f.at), f, "resetSM")
    [] f.at = "resetSM" ->
         Returns([w EXCEPT !.targetMessageResult[1].execResult.logs =
                              IF tr.execResult.logsSet THEN logs ELSE @], r3)

\* the rest of the CALL or CREATE handler of the top frame (EEI._baseCall and
\* EEI.create after executeMessage has returned results): the handler ends
\* with what it pushed or with its error, and runStep, which awaits the
\* handler (part_000:160), is resumed next
resumeHandler(w, results) ==
  LET p == Top(w)
      x == results.execResult
      p1 == [p EXCEPT !.logs = IF x.logsSet THEN @ \o x.logs ELSE @]
      p2 == useGas(p1, results.gasUsed)
      lastReturned == IF x.exceptionError \in {NoError, "REVERT"}
                      THEN x.returnValue ELSE << >>
      dataLength == Min(p.await.outLength, BufLen(lastReturned))
      p3 == IF p.await.kind = "call" /\ BufLen(lastReturned) > 0 /\ dataLength > 0
            THEN [p2 EXCEPT !.memory = BufWrite(@, p.await.outOffset,
                                                Take(lastReturned, dataLength))]
            ELSE p2
      p4 == IF x.exceptionError = NoError
            THEN [p3 EXCEPT !.selfdestruct = @ \cup x.selfdestruct]
            ELSE p3
      code == IF x.exceptionError # NoError THEN 0
              ELSE IF p.await.kind = "call" THEN 1
              ELSE results.createdAddress
      p5 == PushWord(p4, code)
      settles(g) == [g EXCEPT !.phase = "interp", !.await = NoAwait, !.at = "handler"]
  IN  IF p2.trap # NoError THEN SetTop(w, settles(p2)) ELSE SetTop(w, settles(p5))

\* a step event emitted after the step: it carries the advanced PC
stepHookAfter(w) ==
  emit(w, StepEvent(w, [Top(w) EXCEPT !.programCounter = @ + 1],
                    ByteAt(Top(w).msg.code, Top(w).programCounter)))

\* the step event emitted by _runStepHook, outside the try block of
\* Interpreter.run
stepHook(w) == emit(w, StepEvent(w, Top(w), ByteAt(Top(w).msg.code, Top(w).programCounter)))

\* the program counter Interpreter.run is to start at is not 0 and outside the
\* code (part_000:111)
outOfRange(f) ==
  /\ f.programCounter # 0
  /\ f.programCounter < 0 \/ f.programCounter >= BufLen(f.msg.code)

\* the top frame at the head of the loop of Interpreter.run: resumed in
\* runInterpreter it has what runInterpreter and run set before the loop
atLoopHead(w) ==
  IF Top(w).at = "contract" THEN SetTop(w, startInterpreter(w, Top(w))) ELSE w

\* the condition of the loop of Interpreter.run, once a step has thrown or not
loops(f) == f.trap = NoError /\ f.programCounter < BufLen(f.msg.code)

\* an iteration that reads no opcode and calls neither the hook nor runStep:
\* the loop turns at its head, and no step ever charges its fee
readOpcodeIdle(w0) ==
  SetTop(w0, [Top(w0) EXCEPT !.at = IF @ = "contract" THEN "settle" ELSE "contract"])

\* the loop of Interpreter.run of the top frame begins an iteration: it reads
\* the opcode at PC, calls _runStepHook, which emits the step event, and waits
\* for the listeners (part_000:121)
readOpcode(w0) ==
  LET w == atLoopHead(w0)
      f == Top(w)
  IN  SetTop(stepHook(w), [f EXCEPT !.opCode = ByteAt(f.msg.code, f.programCounter),
                                    !.at = "hook"])

\* Interpreter.runStep on the top frame, called by the loop when the listeners
\* of step are done: the lookup, the base fee, the advance of PC and the call
\* of the handler; the loop waits for runStep (part_000:124), which has thrown
\* or returned, or which waits for its asynchronous handler (160), which has
\* done its work or which, for CALL and CREATE, has called executeMessage and
\* waits for it
runStep(w0) ==
  LET f0 == Top(w0)
      f1 == [f0 EXCEPT !.steps = @ + 1]
      opInfo == lookupOpInfo(f0.opCode)
      f2 == useGas(f1, opInfo.fee)
      f3 == [f2 EXCEPT !.programCounter = @ + 1]
      h == Handler(w0, f3, opInfo.name)
  IN
  IF opInfo.name = "INVALID"
  THEN SetTop(w0, [Trap(f1, "INVALID_OPCODE") EXCEPT !.at = "settle"])
  ELSE IF f2.trap # NoError THEN SetTop(w0, [f2 EXCEPT !.at = "settle"])
  ELSE IF h.child # NoChild
  THEN beginMessage(SetTop(h.w, [h.f EXCEPT !.at = "handler"]), h.child[1])
  ELSE SetTop(h.w, [h.f EXCEPT !.at = IF opInfo.isAsync THEN "handler" ELSE "settle"])

\* Interpreter.run of the top frame ends: its start position is out of range
\* and it throws, or its loop is over and runInterpreter goes on with what it
\* returns; [w, thrown, returned]
runEnds(w0) ==
  LET w == atLoopHead(w0) IN
  IF Top(w0).at = "contract" /\ outOfRange(Top(w0))
  THEN Throws(w0, "Error: Internal error: program counter not in range")
  ELSE [w |-> finishInterpreter(w, Top(w)), thrown |-> NoError, returned |-> << >>]


-----------------------------------------------------------------------------
(* Programs: the code of the accounts and of the messages *)

\* PUSH1 0 (x5) PUSH1 to PUSH2 0xffff CALL: a call of `to` with no value, no
\* data and no output area
CallCode(to) == << 96, 0, 96, 0, 96, 0, 96, 0, 96, 0, 96, to, 97, 255, 255, 241 >>

\* the Execution Manager: with call data (run) it calls the caller's account
\* wrapper, without (the wrapper calling back) it calls the target
\*   CALLDATASIZE PUSH1 21 JUMPI <call AddrTarget> STOP
\*   JUMPDEST PUSH1 0 (x5) CALLER PUSH2 0xffff CALL STOP
ExecutionManagerCode ==
  Bytes(<< 54, 96, 21, 87 >> \o CallCode(AddrTarget) \o << 0, 91 >>
        \o << 96, 0, 96, 0, 96, 0, 96, 0, 96, 0, 51, 97, 255, 255, 241, 0 >>)

\* the target: PUSH1 7 PUSH1 1 SSTORE PUSH1 0 PUSH1 0 LOG0 STOP
TargetCode == Bytes(<< 96, 7, 96, 1, 85, 96, 0, 96, 0, 160, 0 >>)

\* PUSH1 0 PUSH1 2 SSTORE: clears slot 2 and so earns a refund
ClearCode == << 96, 0, 96, 2, 85 >>
\* ... and then the undefined opcode 0xfe
FailingCode == Bytes(ClearCode \o << 254 >>)

\* a wrapper that calls back and returns 32 zero bytes
FalseWrapperCode == Bytes(CallCode(AddrExecutionManager) \o << 96, 32, 96, 0, 243 >>)

\* a wrapper that calls the StateManager with setStorage(Execution Manager, 9, 7):
\* it writes the selector and the low byte of each argument with MSTORE8, then
\*   PUSH1 0 PUSH1 0 PUSH1 100 PUSH1 0 PUSH1 0 PUSH1 SM PUSH2 0xffff CALL STOP
SetterWrapperBytes ==
  << 96, 57, 96, 0, 83,  96, 229, 96, 1, 83,  96, 3, 96, 2, 83,
     96, 171, 96, 3, 83,  96, AddrExecutionManager, 96, 35, 83,
     96, 9, 96, 67, 83,  96, 7, 96, 99, 83,
     96, 0, 96, 0, 96, 100, 96, 0, 96, 0, 96, AddrStateManager,
     97, 255, 255, 241, 0 >>
\* no two neighbouring bytes are equal: every byte is a run of its own
SetterWrapperCode ==
  [i \in 1..Len(SetterWrapperBytes) |-> Run(SetterWrapperBytes[i], 1)]

\* PUSH1 1 PUSH1 0 RETURN: init code deploying the one byte 00
DeployCode == << 96, 1, 96, 0, 243 >>
\* init code that sets and clears slot 1 (a refund) before deploying
RefundDeployCode == << 96, 7, 96, 1, 85, 96, 0, 96, 1, 85 >> \o DeployCode
\* PUSH2 0x6001 PUSH1 0 RETURN / REVERT: 24577 bytes, one more than maxCodeSize
LongReturnCode == << 97, 96, 1, 96, 0, 243 >>
LongRevertCode == << 97, 96, 1, 96, 0, 253 >>

\* the code a message brings with it
Programs ==
  { << 0 >>,                          \* STOP
    << 91 >>,                         \* JUMPDEST, then the end of the code
    << 96, 1, 96, 31, 83, 96, 32, 96, 0, 243 >>,  \* RETURN of the flag 1
    << 96, 32, 96, 0, 253 >>,         \* REVERT with 32 bytes
    << 254 >>,                        \* the undefined opcode
    << 96, 3, 86, 91, 0 >>,           \* a jump to a JUMPDEST
    << 96, 4, 86, 96, 91 >>,          \* a jump into a PUSH immediate
    << 86 >>,                         \* JUMP on an empty stack
    ClearCode,
    ClearCode \o << 254 >>,
    CallCode(AddrFailing) \o << 0 >>,
    CallCode(AddrStateManager) \o << 0 >>,
    CallCode(AddrTarget) \o << 0 >>,
    << 96, 1, 96, 0, 96, 0, 240, 0 >> } \* CREATE with the init code 00

\* PUSH1 1 PUSH1 160 MSTORE8 PUSH1 n PUSH1 0 and RETURN or REVERT: n bytes, the
\* byte at offset 160 set
Flagged(n, op) == << 96, 1, 96, 160, 83, 96, n, 96, 0, op >>

\* the code of a target: reverts and returns of fewer than 160 bytes, of 160
\* and of more
FlagPrograms ==
  { << 96, 32, 96, 0, 253 >>, Flagged(159, 253), Flagged(160, 253),
    Flagged(192, 253), Flagged(192, 243), << 254 >> }

InitCodes == { << >>, << 0 >>, DeployCode, RefundDeployCode, LongReturnCode,
               LongRevertCode, << 254 >>, << 96, 32, 96, 0, 253 >> }

\* call data for the StateManager bridge
setStorageData(addr, key, value) ==
  BufCat(Bytes(<< 57, 229, 3, 171 >>), BufCat(Word32(addr), BufCat(Word32(key), Word32(value))))
getStorageData(addr, key) ==
  BufCat(Bytes(<< 98, 197, 16, 163 >>), BufCat(Word32(addr), Word32(key)))
getStorageViewData(addr, key) ==
  BufCat(Bytes(<< 73, 103, 112, 133 >>), BufCat(Word32(addr), Word32(key)))
getOvmContractNonceData(addr) == BufCat(Bytes(<< 14, 125, 15, 255 >>), Word32(addr))
incrementOvmContractNonceData(addr) == BufCat(Bytes(<< 217, 9, 170, 83 >>), Word32(addr))

\* the calls made of the bridge on its own: two accounts without storage, one
\* of them with a nonce; two slots of one and one of them in the other; the
\* empty value and two others
BridgeAddresses == {AddrPlain, AddrTaken}
BridgePairs == { << AddrPlain, 1 >>, << AddrPlain, 2 >>, << AddrTaken, 1 >> }
BridgeValues == {0, 7, 9}
BridgeCalls ==
  { [name |-> "setStorage", addr |-> p[1], slot |-> p[2], value |-> v,
     data |-> setStorageData(p[1], p[2], v)] : p \in BridgePairs, v \in BridgeValues }
  \cup { [name |-> "getStorage", addr |-> p[1], slot |-> p[2],
          data |-> getStorageData(p[1], p[2])] : p \in BridgePairs }
  \cup { [name |-> "getStorageView", addr |-> p[1], slot |-> p[2],
          data |-> getStorageViewData(p[1], p[2])] : p \in BridgePairs }
  \cup { [name |-> "getOvmContractNonce", addr |-> a,
          data |-> getOvmContractNonceData(a)] : a \in BridgeAddresses }
  \cup { [name |-> "incrementOvmContractNonce", addr |-> a,
          data |-> incrementOvmContractNonceData(a)] : a \in BridgeAddresses }

\* the calls that are made while another call is awaited: those of one account
\* and one of its slots
OverlapCalls ==
  { c \in BridgeCalls :
      /\ c.addr = AddrPlain
      /\ c.name \in {"setStorage", "getStorage"} => c.slot = 1
      /\ c.name = "setStorage" => c.value = 9
      /\ c.name # "getStorageView" }


-----------------------------------------------------------------------------
(* The messages handed to executeMessage from outside *)

WithCode(m, code) == [m EXCEPT !.code = code, !.codeSet = TRUE]

\* JUMPDEST PUSH1 0 JUMP: a loop that only the gas ends, 12 gas an iteration
LoopCode == << 91, 96, 0, 86 >>

\* calls at depth 1 that bring their code (the code option of runCall)
CodeMessages ==
  { WithCode(Message(AddrUser, AddrTarget, 0, << >>, g, 1), Bytes(LoopCode)) : g \in {0, 30, 100} }
  \cup
  { WithCode(Message(AddrUser, AddrTarget, 5, << >>, 200000, 1), Bytes(p)) : p \in Programs }
  \cup { WithCode(Message(AddrUser, AddrTarget, 0, << >>, 5, 1), Bytes(<< 96, 3, 86, 91, 0 >>)),
         WithCode(Message(AddrUser, AddrRich, 5, << >>, 200000, 1), Bytes(ClearCode)) }

\* calls at depth 1 of what the state holds at `to`: an account without code,
\* one whose balance overflows, the precompile, the StateManager bridge, the
\* caller itself, a call by a caller that holds less than the value, a
\* delegatecall of the code of the target
StateMessages ==
  { Message(AddrUser, AddrPlain, 5, << >>, 200000, 1),
    Message(AddrUser, AddrRich, 5, << >>, 200000, 1),
    Message(AddrUser, AddrFailing, 0, << >>, 200000, 1),
    Message(AddrUser, AddrBls12MapG2, 0, Zeros(128), 200000, 1),
    Message(AddrUser, AddrBls12MapG2, 0, Zeros(128), 1000, 1),
    Message(AddrUser, AddrBls12MapG2, 0, << >>, 1000, 1),
    Message(AddrUser, AddrStateManager, 0,
            setStorageData(AddrExecutionManager, 15, AddrTaken), 200000, 1),
    Message(AddrUser, AddrStateManager, 5, getStorageData(AddrTarget, 2), 200000, 1),
    Message(AddrUser, AddrStateManager, 0, Bytes(<< 98, 197, 16, 163 >>), 200000, 1),
    Message(AddrUser, AddrStateManager, 0, << >>, 200000, 1),
    Message(AddrUser, AddrUser, 5, << >>, 200000, 1),
    Message(AddrPlain, AddrUser, 5, << >>, 200000, 1),
    [Message(AddrUser, AddrRich, 5, << >>, 200000, 1) EXCEPT
       !.delegatecall = TRUE, !.codeAddress = AddrTarget] }

\* calls made as the Execution Manager at depth 2: the target of a transaction
TargetMessages ==
  { Message(AddrExecutionManager, AddrTarget, 0, << >>, 100000, 2) }
  \cup { WithCode(Message(AddrExecutionManager, AddrTarget, 0, << >>, 100000, 2), Bytes(p)) :
           p \in FlagPrograms }

\* creates at depth 1
CreateMessages ==
  { Message(AddrUser, Undefined, 0, Bytes(c), g, 1) :
      c \in InitCodes, g \in {25100, 5000000} }
  \cup { [Message(AddrUser, Undefined, 0, Bytes(DeployCode), 5000000, 1) EXCEPT !.salt = 1] }
  \cup { Message(AddrUser, Undefined, 5, Bytes(c), 5000000, 1) : c \in {<< >>, << 91 >>, DeployCode} }
  \cup { Message(AddrPlain, Undefined, 5, Bytes(<< 91 >>), 5000000, 1) }
  \cup { [Message(AddrUser, Undefined, 0, Bytes(c), g, 1) EXCEPT !.selfdestruct = {AddrTarget}] :
           c \in {DeployCode, LongReturnCode, << 254 >>}, g \in {25100, 5000000} }

\* transactions: depth 0
EntryMessages ==
  { Message(AddrUser, AddrTarget, 0, << >>, 200000, 0),
    Message(AddrUser, AddrTarget, 0, << >>, 1000, 0),
    Message(AddrUser, AddrTarget, 0, << >>, 500, 0),
    Message(AddrFalseCaller, AddrTarget, 0, << >>, 200000, 0),
    Message(AddrSetter, AddrTarget, 0, << >>, 200000, 0) }

Messages == CodeMessages \cup StateMessages \cup TargetMessages
            \cup CreateMessages \cup EntryMessages

\* the messages a used executor is handed
LaterMessages ==
  EntryMessages
  \cup { Message(AddrUser, Undefined, 0, Bytes(c), 5000000, 1) :
           c \in {DeployCode, RefundDeployCode} }

-----------------------------------------------------------------------------
(* The state machine *)

Account(balance, nonce, code, storage) ==
  [balance |-> balance, nonce |-> nonce, code |-> code, storage |-> storage]

InitialAccounts ==
  [a \in Addresses |->
     CASE a = AddrUser -> Account(1000, 0, << >>, NoStorage)
       [] a = AddrRich -> Account(MAX_INTEGER, 0, << >>, NoStorage)
       [] a = AddrTaken -> Account(0, 1, << >>, 3 :> 9)
       [] a = AddrTarget -> Account(0, 1, TargetCode, 2 :> 5)
       [] a = AddrFailing -> Account(0, 1, FailingCode, 2 :> 5)
       [] a = AddrFalseCaller -> Account(1000, 1, FalseWrapperCode, NoStorage)
       [] a = AddrSetter -> Account(0, 1, SetterWrapperCode, NoStorage)
       [] a = AddrExecutionManager ->
            Account(0, 1, ExecutionManagerCode, (5 :> AddrNew) @@ (15 :> AddrNew))
       [] a = AddrStateManager -> Account(0, 1, Bytes(<< 91, 0 >>), NoStorage)
       [] OTHER -> Account(0, 0, << >>, NoStorage)]

\* the builds of the model: vm.allowUnlimitedContractSize, and what the
\* ethereumjs-util installed does with a negative BN
Builds == { << TRUE, "magnitude" >>, << FALSE, "magnitude" >>, << FALSE, "throws" >> }

\* the executor and the state view as one record
World ==
  [accounts |-> accounts, checkpoints |-> checkpoints, refund |-> refund,
   targetMessage |-> targetMessage, targetMessageResult |-> targetMessageResult,
   accountMessageResult |-> accountMessageResult, frames |-> frames,
   config |-> config, isOvmCall |-> isOvmCall,
   initialEMState |-> initialEMState, initialSMState |-> initialSMState,
   events |-> events, unhandled |-> unhandled, ran |-> ran]

Apply(w) ==
  /\ accounts' = w.accounts
  /\ checkpoints' = w.checkpoints
  /\ refund' = w.refund
  /\ targetMessage' = w.targetMessage
  /\ targetMessageResult' = w.targetMessageResult
  /\ accountMessageResult' = w.accountMessageResult
  /\ frames' = w.frames
  /\ config' = w.config
  /\ isOvmCall' = w.isOvmCall
  /\ initialEMState' = w.initialEMState
  /\ initialSMState' = w.initialSMState
  /\ events' = w.events
  /\ unhandled' = w.unhandled
  /\ ran' = w.ran

NoScan == [code |-> << >>, jumps |-> << >>, done |-> FALSE]

\* no other task has taken a turn at an await of Interpreter.run
NoTask == [seen |-> {}]

\* no direct call of the precompile
NoPromise == [opts |-> << >>, settled |-> << >>, called |-> << >>]

NoBridge ==
  [call |-> [name |-> "none"], returnValue |-> << >>, thrown |-> NoError,
   before |-> << >>, expected |-> << >>,
   written |-> [p \in BridgePairs |-> << >>],
   increments |-> [a \in BridgeAddresses |-> 0],
   inflight |-> << >>, overlapped |-> FALSE, raced |-> FALSE]

\* new EVM(vm, txContext, block): the refund is 0, nothing is latched
Init ==
  /\ accounts = InitialAccounts
  /\ checkpoints = << >>
  /\ refund = 0
  /\ targetMessage = << >>
  /\ targetMessageResult = << >>
  /\ accountMessageResult = << >>
  /\ frames = << >>
  /\ config \in { [spuriousDragon |-> TRUE, allowUnlimitedContractSize |-> c[1],
                     executor |-> "packages/vm/lib/evm", listener |-> Quiet,
                     toBuffer |-> c[2]] : c \in Builds }
  /\ ret = << >>
  /\ panic = NoError
  /\ calls = 0
  /\ scan = NoScan
  /\ bridge = NoBridge
  /\ promise = NoPromise
  /\ task = NoTask
  /\ unhandled = {}
  /\ ran = << >>
  /\ parked = << >>
  /\ isOvmCall = FALSE
  /\ initialEMState = << >>
  /\ initialSMState = << >>
  /\ events = << >>

\* what an executeMessage that returns leaves for the properties to read: w
\* is the executor when the invocation f resumes for the last time, x what it
\* returns
Returned(w, f, x) ==
  [msg |-> f.msg, origMsg |-> f.origMsg, depth |-> f.msg.depth,
   nested |-> Len(w.frames) > 1, isCreate |-> f.isCreate,
   isTargetMessage |-> f.isTargetMessage,
   ranInterpreter |-> f.ranInterpreter, thrown |-> f.trap,
   interpreterError |-> f.exceptionError,
   gasLeft |-> f.gasLeft, steps |-> f.steps, returned |-> f.returnValue,
   dispatched |-> f.result, result |-> x.returned[1], closed |-> f.closed,
   cpEntry |-> f.cpEntry, cpClosed |-> f.cpClosed, cpExit |-> Len(x.w.checkpoints),
   stateEntry |-> f.stateEntry, stateExit |-> x.w.accounts,
   refundEntry |-> f.refundEntry, oldRefund |-> f.oldRefund, refundExit |-> x.w.refund,
   accountEntry |-> f.accountEntry, accountExit |-> x.w.accountMessageResult,
   targetExit |-> x.w.targetMessageResult,
   level |-> Len(w.frames), events |-> x.w.events,
   entryDepth |-> w.frames[1].msg.depth,
   initialEMState |-> x.w.initialEMState, initialSMState |-> x.w.initialSMState]

\* a caller outside the executor calls executeMessage(m), which runs to its
\* first await; the caller has one executeMessage outstanding on an executor
\* (ExecuteMessageMeanwhile is the call made while another is outstanding)
ExecuteMessage ==
  /\ frames = << >>
  /\ panic = NoError
  /\ calls < MaxCalls
  /\ \E m \in (IF calls = 0 THEN Messages ELSE LaterMessages) :
       Apply(beginMessage([World EXCEPT !.events = << >>], m))
  /\ calls' = calls + 1
  /\ UNCHANGED <<ret, panic, scan, parked, bridge, promise, task>>

\* an executeMessage has thrown err and left w: the handler of the message
\* that awaits it throws, which its runStep, awaiting the handler
\* (part_000:160), and then the loop of its run (124) are handed, or err
\* reaches the caller outside; [w, panic]
throwOut(w, err) ==
  IF w.frames # << >>
  THEN [w |-> SetTop(w, [Trap(Top(w), err) EXCEPT !.phase = "interp", !.await = NoAwait,
                                                  !.at = "handler"]),
        panic |-> NoError]
  ELSE [w |-> w, panic |-> err]

\* the invocation on top of w resumes at the await it waits at and runs to
\* its next await, to its throw or to its return: [w, thrown, returned]
resume(w) ==
  LET f == Top(w)
      goesOn(w1) == [w |-> w1, thrown |-> NoError, returned |-> << >>]
  IN
  IF f.phase = "enter" THEN enterStep(w)
  ELSE IF f.phase = "done"
  THEN IF IsLib(w) THEN exitMessageLib(w) ELSE exitMessage(w)
  ELSE IF f.at = "hook"
  THEN IF listenerThrows(w, "step") THEN Throws(w, "Error: listener")
       ELSE goesOn(runStep(w))
  ELSE IF f.at = "handler" THEN goesOn(SetTop(w, [f EXCEPT !.at = "settle"]))
  ELSE IF loops(f) /\ ~outOfRange(f) THEN goesOn(readOpcode(w))
  ELSE runEnds(w)

\* what x, the outcome of a continuation, leaves to the message that awaits
\* the invocation or to the caller outside: a throw, or the result
\* executeMessage returned, which the handler that awaits it takes;
\* [w, panic]
deliver(x) ==
  IF x.thrown # NoError THEN throwOut(x.w, x.thrown)
  ELSE IF x.returned # << >> /\ x.w.frames # << >>
  THEN [w |-> resumeHandler(x.w, x.returned[1]), panic |-> NoError]
  ELSE [w |-> x.w, panic |-> NoError]

\* what a continuation of the invocation on top of w0 with the outcome x
\* leaves: [w, panic, ret, ends], ends telling that the invocation is over
outcome(w0, x) ==
  [w |-> deliver(x).w, panic |-> deliver(x).panic,
   ret |-> IF x.returned # << >> THEN << Returned(w0, Top(w0), x) >> ELSE << >>,
   ends |-> x.thrown # NoError \/ x.returned # << >>]

\* the step that leaves o
Settle(o, ends) ==
  /\ o.ends \in ends
  /\ Apply(o.w)
  /\ panic' = (IF o.panic # NoError THEN o.panic ELSE panic)
  /\ ret' = (IF o.ret # << >> THEN o.ret ELSE ret)
  /\ UNCHANGED <<calls, scan, parked, bridge, promise, task>>

\* the runtime resumes the invocation on top, whose await has settled
Continue(ends) == Settle(outcome(World, resume(World)), ends)

\* the top frame is in the run of its interpreter and waits at one of ats
InRun(ats) ==
  /\ frames # << >>
  /\ Top(World).phase = "interp"
  /\ Top(World).at \in ats

\* the top frame has the result of its dispatch and is in the exit of
\* executeMessage
InExit == frames # << >> /\ Top(World).phase = "done"

\* the executeMessage on top goes on from the await of its entry it waits at
\* to its next await, to its throw, which the message that awaits it or the
\* caller outside is handed, to the result of the dispatch or to the await of
\* runInterpreter
Enter ==
  /\ frames # << >>
  /\ Top(World).phase = "enter"
  /\ Continue(BOOLEAN)

\* the loop of Interpreter.run in the innermost message begins an iteration:
\* the opcode is read and the step event emitted (to part_000:121)
ReadOpcode ==
  /\ InRun({"contract", "settle"})
  /\ loops(Top(World)) /\ ~outOfRange(Top(World))
  /\ Continue(BOOLEAN)

\* the loop goes on after the step event: a listener that has thrown ends run,
\* runInterpreter and executeMessage with its exception; else runStep is
\* called and runs to the end of a synchronous handler or to the await of an
\* asynchronous one (part_000:124 and 160)
RunStep ==
  /\ InRun({"hook"})
  /\ Continue(BOOLEAN)

\* the promise of an asynchronous handler that awaits no message settles
HandlerDone ==
  /\ InRun({"handler"})
  /\ Continue(BOOLEAN)

\* Interpreter.run ends: its start is out of range, a step has thrown, or the
\* program counter is at the end of the code; runInterpreter restores the
\* refund of a failure and _executeCall returns, or _executeCreate makes the
\* code deposit (to evm.ts:441)
RunOut ==
  /\ InRun({"contract", "settle"})
  /\ ~(loops(Top(World)) /\ ~outOfRange(Top(World)))
  /\ Continue(BOOLEAN)

\* the exit of executeMessage of the innermost message goes on to its next
\* await: the checkpoint is closed (evm.ts:237 and 239), afterMessage is
\* emitted (298)
Exit ==
  /\ InExit
  /\ Continue({FALSE})

\* executeMessage of the innermost message ends: it returns to the handler
\* that awaits it or to the caller outside, or it throws, which ends the step
\* of the message that awaits it or reaches the caller outside
Return ==
  /\ InExit
  /\ Continue({TRUE})

Next == ExecuteMessage \/ Enter \/ ReadOpcode \/ RunStep \/ HandlerDone \/ RunOut
        \/ Exit \/ Return

Spec == Init /\ [][Next]_vars


-----------------------------------------------------------------------------
(* The executor with a listener registered on one of its events: one message
   on a new executor *)

EventNames == {"beforeMessage", "afterMessage", "newContract", "step"}

\* no listener, one that throws on an event, one that writes to the result it
\* is handed with afterMessage
Listeners ==
  {Quiet} \cup { [on |-> n, does |-> "throws"] : n \in EventNames }
          \cup { [on |-> "afterMessage", does |-> "edits"] }

\* new EVM(vm, txContext, block) on a VM with vm.on(name, listener)
InitListeners ==
  /\ accounts = InitialAccounts
  /\ checkpoints = << >>
  /\ refund = 0
  /\ targetMessage = << >>
  /\ targetMessageResult = << >>
  /\ accountMessageResult = << >>
  /\ frames = << >>
  /\ config \in { [spuriousDragon |-> TRUE, allowUnlimitedContractSize |-> FALSE,
                     executor |-> "packages/vm/lib/evm", listener |-> l, toBuffer |-> "magnitude"] : l \in Listeners }
  /\ ret = << >>
  /\ panic = NoError
  /\ calls = 0
  /\ scan = NoScan
  /\ bridge = NoBridge
  /\ promise = NoPromise
  /\ task = NoTask
  /\ unhandled = {}
  /\ ran = << >>
  /\ parked = << >>
  /\ isOvmCall = FALSE
  /\ initialEMState = << >>
  /\ initialSMState = << >>
  /\ events = << >>

\* the first executeMessage on the executor
FirstMessage == calls = 0 /\ ExecuteMessage

NextListeners == FirstMessage \/ Enter \/ ReadOpcode \/ RunStep \/ HandlerDone \/ RunOut
                 \/ Exit \/ Return

SpecListeners == InitListeners /\ [][NextListeners]_vars


-----------------------------------------------------------------------------
(* The jump-destination pre-scan on its own: every short code over a few
   bytes, among them PUSH1, PUSH2, PUSH32, JUMPDEST and the bytes next to the
   PUSH range *)

JumpAlphabet == {0, 91, 95, 96, 97, 127, 128}

JumpCodes == UNION { [1..k -> JumpAlphabet] : k \in 0..MaxCodeLen }

InitJumps ==
  /\ accounts = InitialAccounts
  /\ checkpoints = << >>
  /\ refund = 0
  /\ targetMessage = << >>
  /\ targetMessageResult = << >>
  /\ accountMessageResult = << >>
  /\ frames = << >>
  /\ config = [spuriousDragon |-> TRUE, allowUnlimitedContractSize |-> FALSE,
               executor |-> "packages/vm/lib/evm", listener |-> Quiet, toBuffer |-> "magnitude"]
  /\ ret = << >>
  /\ panic = NoError
  /\ calls = 0
  /\ scan \in { [code |-> Bytes(c), jumps |-> << >>, done |-> FALSE] : c \in JumpCodes }
  /\ bridge = NoBridge
  /\ promise = NoPromise
  /\ task = NoTask
  /\ unhandled = {}
  /\ ran = << >>
  /\ parked = << >>
  /\ isOvmCall = FALSE
  /\ initialEMState = << >>
  /\ initialSMState = << >>
  /\ events = << >>

\* Interpreter.run sets runState.validJumps = _getValidJumpDests(code)
PreScan ==
  /\ ~scan.done
  /\ scan' = [scan EXCEPT !.jumps = getValidJumpDests(scan.code), !.done = TRUE]
  /\ UNCHANGED <<accounts, checkpoints, refund, targetMessage, targetMessageResult,
                 accountMessageResult, frames, ret, panic, calls, config, bridge, parked,
                 isOvmCall, initialEMState, initialSMState, events, unhandled, ran, promise, task>>

NextJumps == PreScan

SpecJumps == InitJumps /\ [][NextJumps]_vars


-----------------------------------------------------------------------------
(* The executor of lib/evm under the same calls *)

\* new EVM(vm, txContext, block) of lib/evm: no OVM call yet, no snapshot
InitLib ==
  /\ accounts = InitialAccounts
  /\ checkpoints = << >>
  /\ refund = 0
  /\ targetMessage = << >>
  /\ targetMessageResult = << >>
  /\ accountMessageResult = << >>
  /\ frames = << >>
  /\ config \in { [spuriousDragon |-> TRUE, allowUnlimitedContractSize |-> u,
                     executor |-> "lib/evm", listener |-> Quiet, toBuffer |-> "magnitude"] : u \in BOOLEAN }
  /\ ret = << >>
  /\ panic = NoError
  /\ calls = 0
  /\ scan = NoScan
  /\ bridge = NoBridge
  /\ promise = NoPromise
  /\ task = NoTask
  /\ unhandled = {}
  /\ ran = << >>
  /\ parked = << >>
  /\ isOvmCall = FALSE
  /\ initialEMState = << >>
  /\ initialSMState = << >>
  /\ events = << >>

SpecLib == InitLib /\ [][Next]_vars


-----------------------------------------------------------------------------
(* The StateManager bridge on its own: calls of handleCall on one state
   view, at most MaxInFlight of them awaited at a time *)

\* new OvmStateManager({ vm }) on a new state view
InitBridge ==
  /\ accounts = InitialAccounts
  /\ checkpoints = << >>
  /\ refund = 0
  /\ targetMessage = << >>
  /\ targetMessageResult = << >>
  /\ accountMessageResult = << >>
  /\ frames = << >>
  /\ config = [spuriousDragon |-> TRUE, allowUnlimitedContractSize |-> FALSE,
               executor |-> "packages/vm/lib/evm", listener |-> Quiet, toBuffer |-> "magnitude"]
  /\ ret = << >>
  /\ panic = NoError
  /\ calls = 0
  /\ scan = NoScan
  /\ bridge = NoBridge
  /\ promise = NoPromise
  /\ task = NoTask
  /\ unhandled = {}
  /\ ran = << >>
  /\ parked = << >>
  /\ isOvmCall = FALSE
  /\ initialEMState = << >>
  /\ initialSMState = << >>
  /\ events = << >>

\* the call at place i of seq taken out
Without(seq, i) == SubSeq(seq, 1, i - 1) \o SubSeq(seq, i + 1, Len(seq))

\* ovmStateManager.handleCall(message) with one of BridgeCalls is called and
\* runs to the await of its handler (part_004:50 and, in the handler, 90, 101,
\* 121); what was set through the bridge is noted from the arguments of the
\* call, and so is what the call found set, whether it was made while
\* another call was awaited, and whether it is a setStorage on an account
\* that an incrementOvmContractNonce holds while it waits
BridgeCall ==
  /\ Len(bridge.inflight) < MaxInFlight
  /\ \A i \in 1..Len(bridge.inflight) : bridge.inflight[i].call \in OverlapCalls
  /\ \E c \in (IF bridge.inflight = << >> THEN BridgeCalls ELSE OverlapCalls) :
       /\ c.name = "incrementOvmContractNonce" => accounts[c.addr].nonce < MaxNonce
       /\ LET m == Message(AddrExecutionManager, AddrStateManager, 0, c.data, 200000, 2)
              h == handleCallBegin(World, m)
          IN  /\ Apply(h.w)
              /\ bridge' =
                   [bridge EXCEPT
                      !.call = [name |-> "none"], !.returnValue = << >>,
                      !.thrown = NoError, !.before = << >>, !.expected = << >>,
                      !.written = IF c.name = "setStorage"
                                  THEN [@ EXCEPT ![<< c.addr, c.slot >>] = << c.value >>]
                                  ELSE @,
                      !.overlapped = @ \/ bridge.inflight # << >>,
                      !.raced = @ \/ /\ c.name = "setStorage"
                                     /\ \E i \in 1..Len(bridge.inflight) :
                                          /\ bridge.inflight[i].held # << >>
                                          /\ bridge.inflight[i].call.addr = c.addr,
                      !.inflight = Append(@,
                         [call |-> c, returnValue |-> h.returnValue, thrown |-> h.thrown,
                          held |-> h.held,
                          before |-> IF c.name = "incrementOvmContractNonce"
                                     THEN << accounts >> ELSE << >>,
                          expected |-> IF c.name \in {"getStorage", "getStorageView"}
                                       THEN << bridge.written[<< c.addr, c.slot >>] >>
                                       ELSE << >>])]
  /\ UNCHANGED <<ret, panic, calls, scan, parked, promise, task>>

\* getAccount has answered an incrementOvmContractNonce that is awaited: the
\* handler writes the account it was handed, with the storage that account had
\* when it was read (part_004:122-123)
BridgeResume ==
  /\ \E i \in 1..Len(bridge.inflight) :
       /\ bridge.inflight[i].held # << >>
       /\ Apply(handleCallResume(World, bridge.inflight[i].held))
       /\ bridge' = [bridge EXCEPT !.inflight[i].held = << >>]
  /\ UNCHANGED <<ret, panic, calls, scan, parked, promise, task>>

\* the handler of an awaited call is done: handleCall encodes what it returned
\* and returns it (part_004:51-54)
BridgeReturn ==
  /\ \E i \in 1..Len(bridge.inflight) :
       LET r == bridge.inflight[i] IN
       /\ r.held = << >>
       /\ bridge' =
            [bridge EXCEPT
               !.call = r.call, !.returnValue = r.returnValue, !.thrown = r.thrown,
               !.before = r.before, !.expected = r.expected,
               !.increments = IF r.call.name = "incrementOvmContractNonce"
                              THEN [@ EXCEPT ![r.call.addr] = @ + 1]
                              ELSE @,
               !.inflight = Without(@, i)]
  /\ UNCHANGED <<accounts, checkpoints, refund, targetMessage, targetMessageResult,
                 accountMessageResult, frames, config, isOvmCall, initialEMState,
                 initialSMState, events, unhandled, ran>>
  /\ UNCHANGED <<ret, panic, calls, scan, parked, promise, task>>

NextBridge == BridgeCall \/ BridgeResume \/ BridgeReturn

SpecBridge == InitBridge /\ [][NextBridge]_vars

-----------------------------------------------------------------------------
(* The awaits of Interpreter.run: one message, and the turns of other tasks *)

\* the places where Interpreter.run waits for a promise: `await
\* this._runStepHook()`, `await opFn.apply(...)` of an asynchronous handler,
\* `await this.runStep()`
Awaits == {"hook", "handler", "settle"}

InitTasks ==
  /\ accounts = InitialAccounts
  /\ checkpoints = << >>
  /\ refund = 0
  /\ targetMessage = << >>
  /\ targetMessageResult = << >>
  /\ accountMessageResult = << >>
  /\ frames = << >>
  /\ config = [spuriousDragon |-> TRUE, allowUnlimitedContractSize |-> FALSE,
               executor |-> "packages/vm/lib/evm", listener |-> Quiet, toBuffer |-> "magnitude"]
  /\ ret = << >>
  /\ panic = NoError
  /\ calls = 0
  /\ scan = NoScan
  /\ bridge = NoBridge
  /\ promise = NoPromise
  /\ task = NoTask
  /\ unhandled = {}
  /\ ran = << >>
  /\ parked = << >>
  /\ isOvmCall = FALSE
  /\ initialEMState = << >>
  /\ initialSMState = << >>
  /\ events = << >>

\* the awaits of their step loop at which the runs of Interpreter.run in
\* progress wait: every message whose CALL or CREATE handler awaits a child
\* waits at that of its handler (part_000:160), the innermost message, when
\* its run is in the loop, at the one it has reached
Waiting(w) ==
  { w.frames[i].at :
      i \in { j \in DOMAIN w.frames :
                 \/ w.frames[j].phase = "await"
                 \/ w.frames[j].phase = "interp" /\ w.frames[j].at \in Awaits } }

\* another task of the event loop takes a turn while a step loop waits at
\* one of its awaits, also while a child message is being executed
OtherTask ==
  /\ Waiting(World) # {}
  /\ task' = [task EXCEPT !.seen = @ \cup Waiting(World)]
  /\ UNCHANGED <<accounts, checkpoints, refund, targetMessage, targetMessageResult,
                 accountMessageResult, frames, ret, panic, calls, config, scan, parked, bridge,
                 isOvmCall, initialEMState, initialSMState, events, unhandled, ran, promise>>

NextTasks == FirstMessage \/ Enter \/ ReadOpcode \/ RunStep \/ HandlerDone \/ RunOut
             \/ Exit \/ Return \/ OtherTask

SpecTasks == InitTasks /\ [][NextTasks]_vars

-----------------------------------------------------------------------------
(* Creates on their own: one create on a new executor *)

\* the state view a create may find: the initial one; the address the
\* Execution Manager names holding storage; that address being an account
\* whose balance is MAX_INTEGER
CreateStates ==
  { InitialAccounts,
    [InitialAccounts EXCEPT ![AddrNew].storage = 2 :> 5],
    [InitialAccounts EXCEPT ![AddrExecutionManager].storage = (5 :> AddrRich) @@ (15 :> AddrRich)] }

InitCreate ==
  /\ accounts \in CreateStates
  /\ checkpoints = << >>
  /\ refund = 0
  /\ targetMessage = << >>
  /\ targetMessageResult = << >>
  /\ accountMessageResult = << >>
  /\ frames = << >>
  /\ config \in { [spuriousDragon |-> d, allowUnlimitedContractSize |-> FALSE,
                     executor |-> e, listener |-> Quiet, toBuffer |-> "magnitude"] :
                   d \in BOOLEAN, e \in {"packages/vm/lib/evm", "lib/evm"} }
  /\ ret = << >>
  /\ panic = NoError
  /\ calls = 0
  /\ scan = NoScan
  /\ bridge = NoBridge
  /\ promise = NoPromise
  /\ task = NoTask
  /\ unhandled = {}
  /\ ran = << >>
  /\ parked = << >>
  /\ isOvmCall = FALSE
  /\ initialEMState = << >>
  /\ initialSMState = << >>
  /\ events = << >>

\* executeMessage with a message without `to`
FirstCreate == FirstMessage /\ (frames' # << >> => frames'[1].origMsg.to = Undefined)

NextCreate == FirstCreate \/ Enter \/ ReadOpcode \/ RunStep \/ HandlerDone \/ RunOut
              \/ Exit \/ Return

SpecCreate == InitCreate /\ [][NextCreate]_vars

-----------------------------------------------------------------------------
(* The runs of the interpreter to their end: one executeMessage on a new
   executor, its awaits resumed *)

\* the nesting levels the messages of the model reach
MaxLevel == 4

InitRun == InitTasks

NextRun == FirstMessage \/ Enter \/ ReadOpcode \/ RunStep \/ HandlerDone \/ RunOut
           \/ Exit \/ Return

\* the continuations of the invocation on top: one of them is enabled
\* whenever an invocation is in progress, whichever await it waits at, and
\* each changes the frame it runs in or ends it
Resume == Enter \/ ReadOpcode \/ RunStep \/ HandlerDone \/ RunOut \/ Exit \/ Return

\* the runtime resumes every await whose promise has settled: weak fairness
\* of Resume, with ENABLED <<Resume>>_vars written as its guard
ResumeFair == []<>(frames = << >>) \/ []<><<Resume>>_vars

SpecRun == InitRun /\ [][NextRun]_vars /\ ResumeFair

-----------------------------------------------------------------------------
(* Two executeMessage on one executor, called one while the other waits at an
   await: the continuations of the two interleave on the one state view *)

\* the messages called: a transfer to an account without code, and a create
\* whose init code returns no code; neither runs a CALL or CREATE, so each
\* call is one invocation
OverlapMessages ==
  { Message(AddrUser, AddrPlain, 5, << >>, 200000, 1),
    Message(AddrUser, Undefined, 0, Bytes(<< 91 >>), 5000000, 1) }

InitOverlap == Init /\ config.toBuffer = "magnitude"

\* a caller outside the executor calls executeMessage(m) while the
\* executeMessage it called before, if any, waits at an await; the call runs
\* to its first await
ExecuteMessageMeanwhile ==
  /\ parked = << >>
  /\ panic = NoError
  /\ calls < MaxCalls
  /\ \E m \in OverlapMessages :
       Apply(beginMessage([World EXCEPT !.frames = << >>,
                                           !.events = IF calls = 0 THEN << >> ELSE @], m))
  /\ parked' = frames
  /\ calls' = calls + 1
  /\ UNCHANGED <<ret, panic, scan, bridge, promise, task>>

\* the runtime resumes the other executeMessage: the one that ran waits at
\* its await, or has returned
Switch ==
  /\ parked # << >>
  /\ frames' = parked
  /\ parked' = frames
  /\ UNCHANGED <<accounts, checkpoints, refund, targetMessage, targetMessageResult,
                 accountMessageResult, ret, panic, calls, config, scan, bridge,
                 isOvmCall, initialEMState, initialSMState, events, unhandled, ran, promise, task>>

NextOverlap == ExecuteMessageMeanwhile \/ Switch \/ Enter \/ ReadOpcode \/ RunStep \/ RunOut
               \/ Exit \/ Return

SpecOverlap == InitOverlap /\ [][NextOverlap]_vars

\* the executeMessage calls that began with a message to `to`, and those of
\* all the calls that returned a result without an error
Began(to) ==
  { i \in 1..Len(events) :
      events[i].name = "beforeMessage" /\ events[i].level = 1
      /\ events[i].message.to = to }

Succeeded ==
  { i \in 1..Len(events) :
      events[i].name = "afterMessage" /\ events[i].level = 1
      /\ events[i].result.execResult.exceptionError = NoError }

\* both calls have returned their results, neither with an error
BothSucceeded ==
  /\ calls = 2 /\ frames = << >> /\ parked = << >> /\ panic = NoError
  /\ Cardinality(Succeeded) = 2

\* two transfers of 5 that succeeded have moved 10 (so it is of transfers
\* called one after the other)
TransfersAddUp ==
  (BothSucceeded /\ Cardinality(Began(AddrPlain)) = 2) =>
     /\ accounts[AddrUser].balance = InitialAccounts[AddrUser].balance - 10
     /\ accounts[AddrPlain].balance = InitialAccounts[AddrPlain].balance + 10

\* two transfers of 5 that read the balances before either wrote them have
\* both succeeded, and have moved 5
LostTransfer ==
  /\ BothSucceeded /\ Cardinality(Began(AddrPlain)) = 2
  /\ accounts[AddrUser].balance = InitialAccounts[AddrUser].balance - 5
  /\ accounts[AddrPlain].balance = InitialAccounts[AddrPlain].balance + 5

\* the caller is debited and the callee not yet credited while the transfer
\* waits and the other call runs
DebitedNotCredited ==
  /\ parked # << >> /\ parked[1].phase = "enter" /\ parked[1].at = "toAccount"
  /\ parked[1].msg.to = AddrPlain
  /\ accounts[AddrUser].balance = InitialAccounts[AddrUser].balance - 5
  /\ accounts[AddrPlain].balance = InitialAccounts[AddrPlain].balance

\* of two creates by one caller, whose nonce executeMessage leaves as it is,
\* the second finds the address taken: two creates do not both succeed (so it
\* is of creates called one after the other)
SecondCreateCollides == ~(BothSucceeded /\ Cardinality(Began(Undefined)) = 2)

\* two creates that made their collision checks before either wrote the new
\* account have both succeeded, at one address
TwoCreatesOneAddress ==
  /\ BothSucceeded /\ Cardinality(Began(Undefined)) = 2
  /\ \A i, j \in Succeeded : events[i].result.createdAddress = events[j].result.createdAddress

-----------------------------------------------------------------------------
(* runInterpreter called from outside: a message that brings its code is run
   from a program counter, with no executeMessage around it *)

\* PUSH1 7 PUSH1 1 SSTORE PUSH1 0 PUSH1 2 SSTORE: sets slot 1 and clears slot 2
SetClearCode == << 96, 7, 96, 1, 85 >> \o ClearCode

\* the messages run: two that write storage, the second ending on the
\* undefined opcode, and one that calls the target
DirectMessages ==
  { WithCode(Message(AddrUser, AddrTarget, 0, << >>, 200000, 1), Bytes(c)) :
      c \in {SetClearCode, ClearCode \o << 254 >>, CallCode(AddrTarget) \o << 0 >>} }

\* opts.pc: none, the start of an instruction, the length of the longer
\* storage code
DirectCounters == {0, 5, 10}

InitDirect == Init /\ config.toBuffer = "magnitude"

\* a caller outside calls evm.runInterpreter(m, { pc }), which asks for the
\* account of the contract and waits (evm.ts:468): no beforeMessage, no
\* checkpoint
RunInterpreter ==
  /\ frames = << >>
  /\ panic = NoError
  /\ calls < MaxCalls
  /\ \E m \in DirectMessages, pc \in DirectCounters :
       Apply(Push([World EXCEPT !.events = << >>],
                  [runInterpreter(World, NewFrame(World, m, m, FALSE))
                     EXCEPT !.direct = TRUE, !.programCounter = pc]))
  /\ calls' = calls + 1
  /\ UNCHANGED <<ret, panic, scan, parked, bridge, promise, task>>

NextDirect == RunInterpreter \/ Enter \/ ReadOpcode \/ RunStep \/ HandlerDone \/ RunOut
              \/ Exit \/ Return

SpecDirect == InitDirect /\ [][NextDirect]_vars

\* a run from PC 5 has cleared slot 2 of the target and left the refund, with
\* no checkpoint opened and no message event emitted
DirectRunCleared ==
  /\ calls = 1 /\ frames = << >> /\ ran # << >>
  /\ ran[1].exceptionError = NoError
  /\ StorageGet(accounts[AddrTarget].storage, 2) = 0
  /\ StorageGet(accounts[AddrTarget].storage, 1) = 0
  /\ refund = 15000
  /\ checkpoints = << >>
  /\ \A i \in 1..Len(events) : events[i].name = "step"

\* a run asked to start outside the code has thrown
DirectOutOfRange ==
  /\ frames = << >> /\ ran = << >>
  /\ panic = "Error: Internal error: program counter not in range"

-----------------------------------------------------------------------------
(* Precompile 12 on its own *)

\* len zero bytes, the byte at offset at set to 1 when at is an offset
DataWith(len, at) ==
  IF at = Undefined THEN Zeros(len) ELSE BufWrite(Zeros(len), at, Bytes(<< 1 >>))

\* input lengths around 128 and the offsets at the edges of the two ranges
\* the precompile wants zero
InputLengths == {0, 16, 64, 127, 128, 129, 192}
ByteOffsets == {Undefined, 0, 15, 16, 63, 64, 79, 80, 127}

\* PrecompileInput: with _VM, and as EVM.runPrecompile builds it, without
PrecompileInputs ==
  UNION { { [data |-> DataWith(len, at), gasLimit |-> 200000, hasVM |-> hasVM] :
              at \in { o \in ByteOffsets : o < len }, hasVM \in BOOLEAN } :
            len \in InputLengths }

InitPrecompile ==
  /\ accounts = InitialAccounts
  /\ checkpoints = << >>
  /\ refund = 0
  /\ targetMessage = << >>
  /\ targetMessageResult = << >>
  /\ accountMessageResult = << >>
  /\ frames = << >>
  /\ config = [spuriousDragon |-> TRUE, allowUnlimitedContractSize |-> FALSE,
               executor |-> "packages/vm/lib/evm", listener |-> Quiet, toBuffer |-> "magnitude"]
  /\ ret = << >>
  /\ panic = NoError
  /\ calls = 0
  /\ scan = NoScan
  /\ bridge = NoBridge
  /\ promise \in { [opts |-> << o >>, settled |-> << >>, called |-> << >>] :
                      o \in PrecompileInputs }
  /\ task = NoTask
  /\ unhandled = {}
  /\ ran = << >>
  /\ parked = << >>
  /\ isOvmCall = FALSE
  /\ initialEMState = << >>
  /\ initialSMState = << >>
  /\ events = << >>

\* code(opts) and the settling of the promise it returns
CallPrecompile ==
  /\ promise.opts # << >>
  /\ promise.settled = << >>
  /\ promise' = [promise EXCEPT !.settled = << Bls12MapFp2ToG2(promise.opts[1]) >>]
  /\ UNCHANGED <<accounts, checkpoints, refund, targetMessage, targetMessageResult,
                 accountMessageResult, frames, ret, panic, calls, config, scan, parked, bridge,
                 isOvmCall, initialEMState, initialSMState, events, unhandled, ran, task>>

\* what runPrecompile is handed as code: nothing, a buffer of byte code, what
\* getPrecompile returns for an address without a precompile and for that of
\* precompile 12
PrecompileCodes == {"undefined", "Buffer", getPrecompile(AddrPlain),
                    getPrecompile(AddrBls12MapG2)}

\* evm.runPrecompile(code, data, gasLimit) called from outside
RunPrecompile ==
  /\ promise.opts # << >>
  /\ promise.called = << >>
  /\ \E code \in PrecompileCodes :
       promise' = [promise EXCEPT !.called =
                     << [code |-> code,
                         outcome |-> runPrecompile(code, promise.opts[1].data,
                                                   promise.opts[1].gasLimit)] >>]
  /\ UNCHANGED <<accounts, checkpoints, refund, targetMessage, targetMessageResult,
                 accountMessageResult, frames, ret, panic, calls, config, scan, parked, bridge,
                 isOvmCall, initialEMState, initialSMState, events, unhandled, ran, task>>

NextPrecompile == CallPrecompile \/ RunPrecompile

SpecPrecompile == InitPrecompile /\ [][NextPrecompile]_vars

-----------------------------------------------------------------------------
(* Properties *)

\* the last executeMessage that returned
Last == ret[1]

\* the frames whose Interpreter.run has returned
RunEnded(f) == f.phase = "done" /\ f.ranInterpreter

\* C1: for every message at every depth, call or create, successful or
\* failing, as many checkpoints are open on the state view when executeMessage
\* returns as were open when it was entered.
C1_CheckpointDepthBalanced ==
  ret # << >> => Last.cpExit = Last.cpEntry

\* C2: every executeMessage closes the checkpoint it opened with one operation,
\* a revert when the result it returns carries an exceptionError and a commit
\* when it carries none, at every depth.
C2_ClosedAsReported ==
  ret # << >> =>
    /\ Last.cpClosed = Last.cpEntry + 1
    /\ Last.cpExit = Last.cpClosed - 1
    /\ Last.result.execResult.exceptionError # NoError => Last.closed = "revert"
    /\ Last.result.execResult.exceptionError = NoError => Last.closed = "commit"

\* C3: if the result executeMessage returns carries an exceptionError, the
\* state view (balances, nonces, code, storage) after the return is the one
\* the message started from.
C3_FailureRestoresState ==
  (ret # << >> /\ Last.result.execResult.exceptionError # NoError)
    => Last.stateExit = Last.stateEntry

\* C4: a result without exceptionError reports a gasUsed that is at most the
\* gasLimit of the message.
C4_SuccessWithinGasLimit ==
  (ret # << >> /\ Last.result.execResult.exceptionError = NoError) =>
    /\ Last.result.gasUsed \in 0..Last.msg.gasLimit
    /\ Last.result.execResult.gasUsed \in 0..Last.msg.gasLimit

\* C5 as stated: a result with an exceptionError other than REVERT reports a
\* gasUsed equal to the gasLimit of the message.
C5_AnyFailureChargesAll ==
  (ret # << >> /\ Last.result.execResult.exceptionError \notin {NoError, "REVERT"}) =>
    /\ Last.result.gasUsed = Last.msg.gasLimit
    /\ Last.result.execResult.gasUsed = Last.msg.gasLimit

\* C5, amended: when the dispatch of a message (its interpreter run, or its
\* create with the collision, deposit and code-size checks) ends with an
\* exceptionError other than REVERT and VALUE_OVERFLOW, the result reports a
\* gasUsed equal to the gasLimit of the message.
C5_DispatchFailureChargesAll ==
  (ret # << >>
   /\ Last.dispatched.execResult.exceptionError \notin {NoError, "REVERT", "VALUE_OVERFLOW"}) =>
    /\ Last.result.gasUsed = Last.msg.gasLimit
    /\ Last.result.execResult.gasUsed = Last.msg.gasLimit

\* a message whose interpreter run ended in INVALID_JUMP has returned
C5_Witness ==
  /\ ret # << >>
  /\ Last.interpreterError = "INVALID_JUMP"
  /\ Last.msg.gasLimit - Last.gasLeft < Last.msg.gasLimit

\* C6: when the interpreter run of a message, call or create, ends in REVERT,
\* the result has exceptionError REVERT, gasUsed is the gas consumed and gas is
\* gasLimit - gasUsed, whatever the length of the revert data.
C6_RevertReturnsUnusedGas ==
  (ret # << >> /\ Last.ranInterpreter /\ Last.interpreterError = "REVERT") =>
    /\ Last.dispatched.execResult.exceptionError = "REVERT"
    /\ Last.dispatched.execResult.gasUsed = Last.msg.gasLimit - Last.gasLeft
    /\ Last.dispatched.execResult.gas = Last.msg.gasLimit - Last.dispatched.execResult.gasUsed

RECURSIVE IsInstruction(_, _)
\* offset i is where an instruction starts when code is decoded from offset 0
IsInstruction(code, i) ==
  \/ i = 0
  \/ \E j \in 0..(i - 1) :
       /\ IsInstruction(code, j)
       /\ i = j + 1 + (IF ByteAt(code, j) \in 96..127 THEN ByteAt(code, j) - 95 ELSE 0)

\* C7: the pre-scan returns, in ascending order and each once, exactly the
\* offsets that hold the JUMPDEST byte and are not inside the immediate bytes
\* of a PUSH, also when the immediates of a PUSH run past the end of the code.
C7_ValidJumpsExact ==
  scan.done =>
    /\ \A k \in 1..(Len(scan.jumps) - 1) : scan.jumps[k] < scan.jumps[k + 1]
    /\ { scan.jumps[k] : k \in 1..Len(scan.jumps) }
         = { i \in 0..(BufLen(scan.code) - 1) :
               ByteAt(scan.code, i) = 91 /\ IsInstruction(scan.code, i) }

\* a scanned code with a JUMPDEST inside PUSH immediates, a JUMPDEST outside
\* and a last PUSH whose immediates run past the end
C7_Witness ==
  /\ scan.done
  /\ scan.jumps # << >>
  /\ \E i \in 0..(BufLen(scan.code) - 1) :
       ByteAt(scan.code, i) = 91 /\ \A k \in 1..Len(scan.jumps) : scan.jumps[k] # i
  /\ ByteAt(scan.code, BufLen(scan.code) - 1) \in 96..127

\* C8, the result of a run: it is without exceptionError when the last step
\* raised STOP or the program counter reached the end of the code, and it is
\* the typed error the last step raised otherwise.
RunResult ==
  \A i \in DOMAIN frames :
    RunEnded(frames[i]) =>
      /\ frames[i].trap = "STOP" => frames[i].exceptionError = NoError
      /\ frames[i].trap = NoError =>
           /\ frames[i].exceptionError = NoError
           /\ frames[i].programCounter >= BufLen(frames[i].msg.code)
      /\ frames[i].trap \in VmErrors \ {"STOP"} =>
           frames[i].exceptionError = frames[i].trap
      /\ frames[i].exceptionError = NoError => frames[i].trap \in {"STOP", NoError}

\* the frames whose loop is over: a step of the run has raised an error, or
\* the run has returned
Stopped(f) ==
  \/ RunEnded(f)
  \/ f.phase = "interp" /\ f.trap # NoError

\* C8, the end of the loop: a run in which a step has raised an error, and a
\* run that has returned, execute no further step
NoStepAfterEnd ==
  \A i \in DOMAIN frames :
    (Stopped(frames[i]) /\ i \in DOMAIN frames') =>
      /\ Stopped(frames'[i])
      /\ RunEnded(frames[i]) => RunEnded(frames'[i])
      /\ frames'[i].steps = frames[i].steps
      /\ frames'[i].programCounter = frames[i].programCounter

\* C8: Interpreter.run ends without exceptionError on STOP or at the end of the
\* code; any other typed error stops the loop at that step and is returned as
\* the exceptionError, no further step being executed.
C8_RunEndsAsRaised == [](RunResult) /\ [][NoStepAfterEnd]_vars

\* a run has ended on an invalid jump and returned it
C8_Witness ==
  \E i \in DOMAIN frames :
    /\ RunEnded(frames[i])
    /\ frames[i].trap = "INVALID_JUMP"
    /\ frames[i].exceptionError = "INVALID_JUMP"
    /\ frames[i].steps = 2

\* C9: an error that is not a VmError, raised by a handler during a step, is
\* never the exceptionError of a run or of a result.
C9_UntypedNeverReported ==
  /\ \A i \in DOMAIN frames : frames[i].exceptionError \notin UntypedErrors
  /\ ret # << >> => Last.result.execResult.exceptionError \notin UntypedErrors

\* C10: the refund counter is never negative, and when a message ends with an
\* exceptionError the counter is back at the value it had when the message
\* started, which is the gasRefund attached to the result.
C10_RefundResetOnFailure ==
  /\ refund >= 0
  /\ (ret # << >> /\ Last.result.execResult.exceptionError # NoError) =>
       /\ Last.refundExit = Last.refundEntry
       /\ Last.result.execResult.gasRefund = Last.refundEntry

\* C11: every result executeMessage returns with an exceptionError has an
\* empty logs list, at every depth, the depth-0 result composed from the
\* result of the target message included.
C11_FailedResultHasNoLogs ==
  (ret # << >> /\ Last.result.execResult.exceptionError # NoError)
    => Last.result.execResult.logs = << >>

\* the result of the latched target as the depth-0 exit of the message that
\* returned last found it
Target == Last.targetExit[1].execResult

\* a depth-0 message has returned a result composed from a latched target
ComposedAtDepth0 == ret # << >> /\ Last.depth = 0 /\ Last.targetExit # << >>

\* C14: at the depth-0 exit the first 160 bytes of the return data of the
\* target are removed exactly when the target reverted (its exceptionError is
\* REVERT) with at least 160 bytes; the return data of a target that succeeded
\* or returned fewer than 160 bytes is passed on unchanged.
C14_FlagsStrippedOnRevert ==
  ComposedAtDepth0 =>
    LET data == Target.returnValue
        out == Last.result.execResult.returnValue
    IN  /\ (Target.exceptionError = "REVERT" /\ BufLen(data) >= 160)
             => /\ BufLen(out) = BufLen(data) - 160
                /\ \A i \in 0..(BufLen(out) - 1) : ByteAt(out, i) = ByteAt(data, i + 160)
        /\ (Target.exceptionError = NoError \/ BufLen(data) < 160) => out = data
        /\ out # data => Target.exceptionError = "REVERT"

\* a target that reverted with 192 bytes, of which the last 32 were returned
C14_Witness ==
  /\ ComposedAtDepth0
  /\ Target.exceptionError = "REVERT"
  /\ BufLen(Target.returnValue) = 192
  /\ BufLen(Last.result.execResult.returnValue) = 32
  /\ ByteAt(Last.result.execResult.returnValue, 0) = 1

\* C15: at the depth-0 exit with a latched target the exceptionError of the
\* result is a synthesized REVERT exactly when the recorded
\* accountMessageResult has a return value whose first 32 bytes are all zero
\* and the target has no exceptionError, and the exceptionError of the target
\* otherwise; a depth-1 message becomes the accountMessageResult when its `to`
\* is not the StateManager and never when it is.
C15_DeployExceptionHeuristic ==
  /\ ComposedAtDepth0 =>
       LET falseReturned ==
             /\ Last.accountExit # << >>
             /\ BufLen(Last.accountExit[1].execResult.returnValue) >= 32
             /\ \A i \in 0..31 : ByteAt(Last.accountExit[1].execResult.returnValue, i) = 0
       IN  Last.result.execResult.exceptionError =
             IF falseReturned /\ Target.exceptionError = NoError THEN "REVERT"
             ELSE Target.exceptionError
  /\ (ret # << >> /\ Last.depth = 1) =>
       IF Last.msg.to = AddrStateManager
       THEN Last.accountExit = Last.accountEntry
       ELSE Last.accountExit = << Last.result >>
  /\ (ret # << >> /\ Last.depth # 1) => Last.accountExit = Last.accountEntry

\* the wrapper returned 32 zero bytes and the target succeeded: the result of
\* the depth-0 message carries a REVERT no message raised
C15_Witness ==
  /\ ComposedAtDepth0
  /\ Target.exceptionError = NoError
  /\ Last.dispatched.execResult.exceptionError = NoError
  /\ Last.result.execResult.exceptionError = "REVERT"

\* what a call that has returned was to return: a setStorage the empty tuple,
\* a read 32 bytes, the value of the last setStorage made on its pair before
\* the read was made, or zeroes when there was none
ReadsLastWrite ==
  /\ bridge.call.name = "setStorage" =>
       bridge.thrown = NoError /\ bridge.returnValue = << >>
  /\ bridge.call.name \in {"getStorage", "getStorageView"} =>
       LET last == bridge.expected[1]
       IN  /\ bridge.thrown = NoError
           /\ BufLen(bridge.returnValue) = 32
           /\ IF last = << >>
              THEN \A i \in 0..31 : ByteAt(bridge.returnValue, i) = 0
              ELSE BufToInt(bridge.returnValue) = last[1]
           /\ ~bridge.overlapped =>
                last = bridge.written[<< bridge.call.addr, bridge.call.slot >>]

C17_WitnessLostWrite ==
  /\ bridge.call.name = "getStorage"
  /\ bridge.raced
  /\ bridge.expected = << << 9 >> >>
  /\ \A i \in 0..31 : ByteAt(bridge.returnValue, i) = 0

C17_WitnessOverlap ==
  /\ bridge.call.name = "getStorage"
  /\ ~bridge.raced
  /\ bridge.expected = << << 7 >> >>
  /\ bridge.written[<< bridge.call.addr, bridge.call.slot >>] = << 9 >>
  /\ ByteAt(bridge.returnValue, 31) = 7

\* C18: through the bridge, with one call awaited at a time (the one
\* outstanding transaction of the executor), getOvmContractNonce(a) returns 0
\* for an account whose nonce was never set and, after n calls of
\* incrementOvmContractNonce(a), the nonce there was before plus n;
\* incrementOvmContractNonce(a) changes the nonce of a and nothing else.
C18_NonceCountsIncrements ==
  ~bridge.overlapped =>
    /\ bridge.call.name = "getOvmContractNonce" =>
         /\ bridge.thrown = NoError
         /\ BufLen(bridge.returnValue) = 32
         /\ BufToInt(bridge.returnValue) =
              InitialAccounts[bridge.call.addr].nonce + bridge.increments[bridge.call.addr]
    /\ bridge.call.name = "incrementOvmContractNonce" =>
         /\ bridge.thrown = NoError
         /\ accounts = [bridge.before[1] EXCEPT ![bridge.call.addr].nonce = @ + 1]

\* the nonce of an account that had nonce 1 is read after an increment
C18_Witness ==
  /\ bridge.call.name = "getOvmContractNonce"
  /\ ~bridge.overlapped
  /\ InitialAccounts[bridge.call.addr].nonce = 1
  /\ bridge.increments[bridge.call.addr] = 1
  /\ ByteAt(bridge.returnValue, 31) = 2

\* the same of calls that overlap: it is violated, as two increments that were
\* awaited together both find the nonce 0 and both write the nonce 1
C18_OverlappingIncrements ==
  bridge.call.name = "getOvmContractNonce" =>
    BufToInt(bridge.returnValue) =
      InitialAccounts[bridge.call.addr].nonce + bridge.increments[bridge.call.addr]

\* two increments of one account have returned and its nonce is one higher
C18_LostIncrement ==
  \E a \in BridgeAddresses :
    /\ bridge.inflight = << >>
    /\ bridge.increments[a] = 2
    /\ accounts[a].nonce = InitialAccounts[a].nonce + 1

RECURSIVE SumBalances(_, _)
\* the sum of the balances of the accounts in set
SumBalances(accts, set) ==
  IF set = {} THEN 0
  ELSE LET a == CHOOSE x \in set : TRUE
       IN  accts[a].balance + SumBalances(accts, set \ {a})

\* the innermost message is a call that _executeCall has moved the value of:
\* no step of it has run yet, and its checkpoint is not closed yet
TransferDone ==
  /\ frames # << >>
  /\ ~Top(World).isCreate
  /\ \/ Top(World).phase = "interp"
     \/ Top(World).phase = "done" /\ Top(World).at = "result"
  /\ Top(World).steps = 0
  /\ Top(World).msg.to # AddrStateManager

\* the balance of account a after a debit of the caller and a credit of `to`
Moved(before, m, a, debit, credit) ==
  before[a].balance - (IF a = m.caller THEN debit ELSE 0)
                    + (IF a = m.to THEN credit ELSE 0)

\* the credit of message m would take the balance of `to` above MAX_INTEGER
CreditOverflows(before, m) ==
  Moved(before, m, m.to, m.value, m.value) > MAX_INTEGER

\* C20 as stated: in _executeCall a delegatecall changes no balance, any other
\* message takes value from the caller and gives it to the callee, the sum of
\* all balances staying the same.
C20_TransferPreservesSum ==
  TransferDone =>
    LET f == Top(World) IN
    /\ f.msg.delegatecall =>
         \A a \in Addresses : accounts[a].balance = f.stateEntry[a].balance
    /\ ~f.msg.delegatecall =>
         /\ \A a \in Addresses :
              accounts[a].balance = Moved(f.stateEntry, f.msg, a, f.msg.value, f.msg.value)
         /\ SumBalances(accounts, Addresses) = SumBalances(f.stateEntry, Addresses)

\* the caller of message m holds less than the value of m
UnderFunded(before, m) == before[m.caller].balance < m.value

\* the transfer as spec.md has it, the credit that overflows left out: a
\* delegatecall changes no balance; any other message takes value from the
\* caller and, unless that would take the balance of the callee above
\* MAX_INTEGER, gives it to the callee, the sum of all balances staying the
\* same; when the credit overflows only the debit is made and the result
\* carries VALUE_OVERFLOW. Violated by the caller that holds less than the
\* value.
C20_TransferUnlessOverflow ==
  TransferDone =>
    LET f == Top(World) IN
    /\ f.msg.delegatecall =>
         \A a \in Addresses : accounts[a].balance = f.stateEntry[a].balance
    /\ (~f.msg.delegatecall /\ ~CreditOverflows(f.stateEntry, f.msg)) =>
         /\ \A a \in Addresses :
              accounts[a].balance = Moved(f.stateEntry, f.msg, a, f.msg.value, f.msg.value)
         /\ SumBalances(accounts, Addresses) = SumBalances(f.stateEntry, Addresses)
    /\ (~f.msg.delegatecall /\ CreditOverflows(f.stateEntry, f.msg)) =>
         /\ \A a \in Addresses :
              accounts[a].balance = Moved(f.stateEntry, f.msg, a, f.msg.value, 0)
         /\ f.phase = "done"
         /\ f.result.execResult.exceptionError = "VALUE_OVERFLOW"

\* the same of the callers that hold the value they send
C20_FundedTransfer ==
  (TransferDone /\ UnderFunded(Top(World).stateEntry, Top(World).msg))
  \/ C20_TransferUnlessOverflow

\* a caller without balance has sent 5: it holds 5 now, and so much more
\* does the callee
C20_WitnessUnderFunded ==
  /\ TransferDone
  /\ ~Top(World).msg.delegatecall
  /\ Top(World).stateEntry[Top(World).msg.caller].balance = 0
  /\ Top(World).msg.value = 5
  /\ accounts[Top(World).msg.caller].balance = 5
  /\ SumBalances(accounts, Addresses) = SumBalances(Top(World).stateEntry, Addresses) + 10

\* the executeMessage of such a caller has thrown in the debit, its
\* checkpoint left open
C20_WitnessThrows ==
  /\ panic = "Error: Cannot convert negative BN to buffer"
  /\ frames = << >>
  /\ checkpoints # << >>

\* a call of the caller's own account with a value has been dispatched
C20_Witness ==
  /\ TransferDone
  /\ Top(World).msg.caller = Top(World).msg.to
  /\ Top(World).msg.value > 0
  /\ ~Top(World).msg.delegatecall
  /\ accounts[Top(World).msg.to].balance = Top(World).stateEntry[Top(World).msg.to].balance

\* C12: when a depth-0 message completes and no message was latched as target,
\* executeMessage returns a result with exceptionError OVM_ERROR, whether or
\* not the outer message failed, and does not throw.
C12_NoTargetGivesOvmError ==
  /\ panic # "Error: Execution failed to reach target address"
  /\ (ret # << >> /\ Last.depth = 0 /\ Last.targetExit = << >>)
       => Last.result.execResult.exceptionError = "OVM_ERROR"

\* the logs of the outer message as its own exit left them
OuterLogs ==
  IF Last.dispatched.execResult.exceptionError # NoError \/ ~Last.dispatched.execResult.logsSet
  THEN << >>
  ELSE Last.dispatched.execResult.logs

\* C13: when a depth-0 message completes and a target was latched, the result
\* takes createdAddress, returnValue and exceptionError from the result of the
\* target, keeps gasUsed and gasRefund of the outer message, and its logs are
\* those of the outer message without the logs of the Execution Manager, in
\* their order. The return value may have lost the flags (C14) and the
\* exceptionError may be the synthesized REVERT (C15), which the sentence of
\* the spec the claim restates names next to the composition.
C13_ComposedFromTarget ==
  ComposedAtDepth0 =>
    LET x == Last.result.execResult IN
    /\ Last.result.createdAddress = Last.targetExit[1].createdAddress
    /\ x.returnValue \in {Target.returnValue, returnData(Last.targetExit[1])}
    /\ x.exceptionError \in {Target.exceptionError, "REVERT"}
    /\ Last.result.gasUsed = Last.dispatched.gasUsed
    /\ x.gasUsed = Last.dispatched.execResult.gasUsed
    /\ x.gasRefund = Last.refundExit
    /\ x.logs = SelectSeq(OuterLogs, LAMBDA log : log.address # AddrExecutionManager)

\* C16: a message to the StateManager pseudo-contract bypasses _executeCall
\* and the interpreter: no balance changes, gasUsed and execResult.gasUsed are
\* 0, the return value is what handleCall returns, there is no exceptionError
\* and the checkpoint of the message is committed.
C16_BridgeBypassesExecution ==
  (ret # << >> /\ ~Last.isCreate /\ Last.msg.to = AddrStateManager) =>
    /\ ~Last.ranInterpreter
    /\ \A a \in Addresses : Last.stateExit[a].balance = Last.stateEntry[a].balance
    /\ Last.result.gasUsed = 0
    /\ Last.result.execResult.gasUsed = 0
    /\ Last.result.execResult.returnValue =
         handleCall([World EXCEPT !.accounts = Last.stateEntry], Last.msg).returnValue
    /\ Last.result.execResult.exceptionError = NoError
    /\ Last.closed = "commit"

\* C19: a call of an address without code returns gasUsed 0,
\* execResult.gasUsed 0, an empty return value and no exceptionError, and has
\* moved message.value from the balance of the caller to that of the callee.
C19_EmptyCodeCallTransfers ==
  (ret # << >> /\ ~Last.isCreate /\ Last.msg.codeSet /\ ~Last.msg.isCompiled
   /\ BufLen(Last.msg.code) = 0) =>
    /\ Last.result.gasUsed = 0
    /\ Last.result.execResult.gasUsed = 0
    /\ Last.result.execResult.returnValue = << >>
    /\ Last.result.execResult.exceptionError = NoError
    /\ \A a \in Addresses :
         Last.stateExit[a].balance =
           Moved(Last.stateEntry, Last.msg, a, Last.msg.value, Last.msg.value)

\* the last message that returned is a call whose credit would take the
\* balance of the callee above MAX_INTEGER
OverflowCall ==
  /\ ret # << >>
  /\ ~Last.isCreate
  /\ ~Last.msg.delegatecall
  /\ Last.msg.to # AddrStateManager
  /\ CreditOverflows(Last.stateEntry, Last.msg)

\* C21: in a call whose credit would take the balance of the callee above the
\* 256-bit maximum, VALUE_OVERFLOW is captured and not thrown: no code is run,
\* the result has gasUsed 0, an empty returnValue and exceptionError
\* VALUE_OVERFLOW, and once executeMessage has returned the balances of all
\* accounts, the caller's among them, are those from before the message.
C21_OverflowCaptured ==
  OverflowCall =>
    /\ panic = NoError
    /\ ~Last.ranInterpreter /\ Last.steps = 0
    /\ Last.dispatched.gasUsed = 0
    /\ Last.dispatched.execResult.gasUsed = 0
    /\ Last.dispatched.execResult.returnValue = << >>
    /\ Last.dispatched.execResult.exceptionError = "VALUE_OVERFLOW"
    /\ Last.result.execResult.exceptionError = "VALUE_OVERFLOW"
    /\ Last.result.execResult.returnValue = << >>
    /\ Last.result.gasUsed = 0
    /\ Last.closed = "revert"
    /\ \A a \in Addresses : Last.stateExit[a].balance = Last.stateEntry[a].balance

\* a call with a value of an account that holds MAX_INTEGER and brings code
\* has returned
C21_Witness ==
  /\ OverflowCall
  /\ Last.msg.value > 0
  /\ BufLen(Last.msg.code) > 0
  /\ Last.stateEntry[Last.msg.to].balance = MAX_INTEGER
  /\ Last.stateExit[Last.msg.caller].balance = Last.stateEntry[Last.msg.caller].balance

\* the index in evs of the beforeMessage of the message that runs, or ran
\* last, at the given level
Begin(evs, level) ==
  CHOOSE i \in DOMAIN evs :
    /\ evs[i].name = "beforeMessage" /\ evs[i].level = level
    /\ \A j \in DOMAIN evs :
         (evs[j].name = "beforeMessage" /\ evs[j].level = level) => j <= i

\* the events the last message that returned emitted itself
OwnEvents ==
  LET evs == Last.events
  IN  { evs[k] : k \in { j \in DOMAIN evs : j >= Begin(evs, Last.level)
                                           /\ evs[j].level = Last.level } }

\* the last message that returned is a create at an address whose account had
\* a nonce or code when the message began
CollidingCreate ==
  /\ ret # << >>
  /\ Last.isCreate
  /\ \/ Last.stateEntry[Last.msg.to].nonce > 0
     \/ BufLen(Last.stateEntry[Last.msg.to].code) # 0

\* C22: a create at an address whose account has a nonce above 0 or code
\* returns CREATE_COLLISION with gasUsed = gasLimit and that address as
\* createdAddress; the interpreter is not run, newContract is not emitted, and
\* storage, nonce, balance and code of the account stay as they were.
C22_CreateCollision ==
  CollidingCreate =>
    /\ Last.dispatched.execResult.exceptionError = "CREATE_COLLISION"
    /\ Last.dispatched.gasUsed = Last.msg.gasLimit
    /\ Last.dispatched.execResult.gasUsed = Last.msg.gasLimit
    /\ Last.dispatched.createdAddress = Last.msg.to
    /\ Last.result.execResult.exceptionError = "CREATE_COLLISION"
    /\ Last.result.gasUsed = Last.msg.gasLimit
    /\ Last.result.createdAddress = Last.msg.to
    /\ ~Last.ranInterpreter /\ Last.steps = 0
    /\ \A e \in OwnEvents : e.name # "newContract"
    /\ Last.stateExit[Last.msg.to] = Last.stateEntry[Last.msg.to]

\* a create has collided with an account that has a nonce, no code and a
\* storage slot set
C22_Witness ==
  /\ CollidingCreate
  /\ BufLen(Last.stateEntry[Last.msg.to].code) = 0
  /\ Last.stateExit[Last.msg.to].storage # NoStorage
  /\ BufLen(Last.msg.code) > 0

\* the last message that returned is a create whose init code ran to its end
\* without error
InitCodeReturned ==
  /\ ret # << >>
  /\ Last.isCreate
  /\ Last.ranInterpreter
  /\ Last.interpreterError = NoError

\* the gas of the run of the init code plus the deposit for the bytes returned
DepositTotal ==
  (Last.msg.gasLimit - Last.gasLeft) + createData * BufLen(Last.returned)

\* the deposit cannot be paid or the code returned is too long
DepositFails ==
  \/ DepositTotal > Last.msg.gasLimit
  \/ /\ config.spuriousDragon
     /\ BufLen(Last.returned) > maxCodeSize
     /\ ~config.allowUnlimitedContractSize

\* C23: after the init code of a create has returned without error, gasUsed is
\* the gas of the run plus createData for each byte returned; when that is
\* more than gasLimit, or the code returned is longer than maxCodeSize with
\* allowUnlimitedContractSize off, the create fails with OUT_OF_GAS, gasUsed =
\* gasLimit and an empty returnValue and no code is stored; otherwise the
\* bytes returned are the code of the created address. A create that carries
\* an exceptionError stores no code.
C23_CodeDeposit ==
  /\ InitCodeReturned =>
       LET result == Last.dispatched.execResult
           to == Last.msg.to
       IN  /\ DepositFails =>
                /\ result.exceptionError = "OUT_OF_GAS"
                /\ result.gasUsed = Last.msg.gasLimit
                /\ Last.dispatched.gasUsed = Last.msg.gasLimit
                /\ result.returnValue = << >>
                /\ Last.stateExit[to].code = Last.stateEntry[to].code
           /\ ~DepositFails =>
                /\ result.exceptionError = NoError
                /\ result.gasUsed = DepositTotal
                /\ Last.dispatched.gasUsed = DepositTotal
                /\ result.returnValue = Last.returned
                /\ Last.stateExit[to].code = Last.returned
           /\ Last.dispatched.createdAddress = to
  /\ (ret # << >> /\ Last.isCreate /\ Last.result.execResult.exceptionError # NoError) =>
       Last.stateExit[Last.msg.to].code = Last.stateEntry[Last.msg.to].code

\* a create whose init code returned one byte has failed for the gas of the
\* deposit
C23_Witness ==
  /\ InitCodeReturned
  /\ BufLen(Last.returned) = 1
  /\ Last.msg.gasLimit - Last.gasLeft <= Last.msg.gasLimit
  /\ DepositTotal > Last.msg.gasLimit
  /\ Last.dispatched.execResult.exceptionError = "OUT_OF_GAS"

\* creates have stored code: one byte, and more than maxCodeSize with
\* allowUnlimitedContractSize on; one has failed for the size of its code
C23_WitnessStored ==
  /\ InitCodeReturned
  /\ ~DepositFails
  /\ BufLen(Last.returned) > maxCodeSize
  /\ Last.stateExit[Last.msg.to].code = Last.returned
C23_WitnessTooLong ==
  /\ InitCodeReturned
  /\ DepositTotal <= Last.msg.gasLimit
  /\ DepositFails

\* the address the standard path derives for the create that returned last:
\* from caller, salt and code for a message with a salt, else from the caller
\* and its nonce minus one
StandardAddress ==
  LET m == Last.origMsg
      newNonce == Last.stateEntry[m.caller].nonce - 1
  IN  IF m.salt # Undefined
      THEN generateAddress2Of(m.caller, m.salt, m.data)
      ELSE generateAddressOf(m.caller, IF newNonce < 0 THEN -newNonce ELSE newNonce)

\* C24: the address of a created contract is, under the OVM entry path (the
\* create runs within a message entered at depth 0), the address in storage
\* slot 0x0f of the Execution Manager at the time of the create; under the
\* standard path it is the CREATE2-style address for a message with a salt
\* and the CREATE-style address of the caller and its nonce minus one for a
\* message without.
C24_AddressByPath ==
  (ret # << >> /\ Last.isCreate) =>
    Last.dispatched.createdAddress =
      IF Last.entryDepth = 0
      THEN StorageGet(Last.stateEntry[AddrExecutionManager].storage, 15)
      ELSE StandardAddress

\* the events named name that the message which returned last emitted itself
OwnNamed(name) ==
  LET evs == Last.events
  IN  { k \in DOMAIN evs : /\ k >= Begin(evs, Last.level)
                           /\ evs[k].level = Last.level
                           /\ evs[k].name = name }

\* the message at level - 1 is between its beforeMessage and its afterMessage
\* when event k of evs is emitted
ParentOpen(evs, k) ==
  \E i \in 1..(k - 1) :
    /\ evs[i].name = "beforeMessage" /\ evs[i].level = evs[k].level - 1
    /\ \A j \in (i + 1)..k :
         ~(evs[j].level = evs[k].level - 1 /\ evs[j].name \in {"beforeMessage", "afterMessage"})

\* the executeMessage that emitted the beforeMessage at i of evs has emitted
\* its afterMessage: the next beforeMessage or afterMessage of its level is
\* one, with no event of a message further out before it
Closed(evs, i) ==
  \E j \in (i + 1)..Len(evs) :
    /\ evs[j].name = "afterMessage" /\ evs[j].level = evs[i].level
    /\ \A k \in (i + 1)..(j - 1) :
         /\ evs[k].level >= evs[i].level
         /\ evs[k].level = evs[i].level => evs[k].name \notin {"beforeMessage", "afterMessage"}

\* the afterMessage at j of evs is that of an executeMessage which emitted
\* its beforeMessage and none other since
Opened(evs, j) ==
  \E i \in 1..(j - 1) :
    /\ evs[i].name = "beforeMessage" /\ evs[i].level = evs[j].level
    /\ \A k \in (i + 1)..(j - 1) :
         /\ evs[k].level >= evs[i].level
         /\ evs[k].level = evs[i].level => evs[k].name \notin {"beforeMessage", "afterMessage"}

\* the part of C25 that is about the invocations that return: an
\* executeMessage that returns has emitted beforeMessage once, before
\* it opened its checkpoint, and afterMessage once, as its last event, after
\* the commit or revert and the depth-0 reconciliation, with the result it
\* returns as payload; every event of a child message is emitted after the
\* beforeMessage of its parent and before the parent's afterMessage.
C25_MessageEvents ==
  /\ ret # << >> =>
       LET evs == Last.events
           b == Begin(evs, Last.level)
           n == Len(evs)
       IN  /\ OwnNamed("beforeMessage") = {b}
           /\ evs[b].message = Last.origMsg
           /\ evs[b].cp = Last.cpEntry
           /\ OwnNamed("afterMessage") = {n}
           /\ evs[n].cp = Last.cpExit
           /\ evs[n].result = Last.result
           /\ \A k \in b..n : evs[k].level >= Last.level
  /\ \A k \in DOMAIN events :
       /\ IF events[k].level = 1
          THEN events[k].name = "beforeMessage" <=> k = 1
          ELSE ParentOpen(events, k)
       /\ events[k].name = "afterMessage" => Opened(events, k)

\* C25: every executeMessage emits beforeMessage exactly once, before the
\* checkpoint is opened, and afterMessage exactly once, after the commit or
\* revert and the depth-0 reconciliation, with the result it returns as
\* payload, the events of a child falling between those of its parent: when
\* no executeMessage is in progress every beforeMessage is followed by the
\* afterMessage of its invocation.
C25_EveryMessage ==
  /\ C25_MessageEvents
  /\ frames = << >> =>
       \A i \in DOMAIN events : events[i].name = "beforeMessage" => Closed(events, i)

\* an executeMessage called with a selector the StateManager bridge does not
\* know has thrown: it has emitted its beforeMessage and nothing else
C25_WitnessThrown ==
  /\ frames = << >>
  /\ panic = "Error: no matching function"
  /\ Len(events) = 1
  /\ events[1].name = "beforeMessage"

\* a message has returned whose child message ran code and returned before it
C25_Witness ==
  /\ ret # << >>
  /\ Last.level = 1
  /\ \E i, j, k \in DOMAIN Last.events :
       /\ i < j /\ j < k /\ k < Len(Last.events)
       /\ Last.events[i].name = "beforeMessage" /\ Last.events[i].level = 2
       /\ Last.events[j].name = "step" /\ Last.events[j].level = 2
       /\ Last.events[k].name = "afterMessage" /\ Last.events[k].level = 2

RECURSIVE QuietRun(_)
\* the messages in progress in s.w run to the end of the outermost one:
\* [w, result, panic], result holding what the outermost message returned
QuietRun(s) ==
  IF s.w.frames = << >> \/ s.panic # NoError THEN s
  ELSE LET x == resume(s.w)
           t == deliver(x)
       IN  QuietRun([w |-> t.w,
                     result |-> IF x.returned # << >> /\ x.w.frames = << >>
                                THEN x.returned ELSE s.result,
                     panic |-> t.panic])

\* executeMessage(m) on a new executor of the same configuration without
\* listeners, run to its end
Reference(m) ==
  LET w0 == [accounts |-> InitialAccounts, checkpoints |-> << >>, refund |-> 0,
             targetMessage |-> << >>, targetMessageResult |-> << >>,
             accountMessageResult |-> << >>, frames |-> << >>,
             config |-> [config EXCEPT !.listener = Quiet], isOvmCall |-> FALSE,
             initialEMState |-> << >>, initialSMState |-> << >>, events |-> << >>,
             unhandled |-> {}, ran |-> << >>]
  IN  QuietRun([w |-> beginMessage(w0, m), result |-> << >>, panic |-> NoError])

\* the first executeMessage on the executor has returned or thrown
FirstEnded == calls = 1 /\ frames = << >>

\* the first executeMessage on the executor has returned
FirstReturned == FirstEnded /\ ret # << >> /\ Last.level = 1

\* C26: events are advisory: the first executeMessage on an executor with a
\* listener on beforeMessage, afterMessage, newContract or step, one that
\* throws or one that writes to the object it is handed, returns when the
\* same message on the same state without listeners returns, with the same
\* result, and leaves the same state.
C26_EventsAdvisory ==
  FirstEnded =>
    LET quiet == Reference(events[1].message) IN
    /\ FirstReturned <=> quiet.result # << >>
    /\ FirstReturned => Last.result = quiet.result[1]
    /\ accounts = quiet.w.accounts
    /\ checkpoints = quiet.w.checkpoints
    /\ refund = quiet.w.refund
    /\ targetMessageResult = quiet.w.targetMessageResult
    /\ accountMessageResult = quiet.w.accountMessageResult

\* the snapshot of the Execution Manager and of the StateManager an entry
\* message holds is the pair of accounts as it found them
SnapshotTaken(r) ==
  /\ r.initialEMState = << r.stateEntry[AddrExecutionManager] >>
  /\ r.initialSMState = << r.stateEntry[AddrStateManager] >>

\* ... and the two accounts are as the snapshot has them
SnapshotRestored(r) ==
  /\ << r.stateExit[AddrExecutionManager] >> = r.initialEMState
  /\ << r.stateExit[AddrStateManager] >> = r.initialSMState

\* the awaits of an entry message up to the end of _makeContractSnapshot
BeforeSnapshot == {"beforeMessage", "checkpoint", "snapshotEM", "snapshotSM"}

\* C27: the Execution Manager's and the StateManager's accounts are
\* snapshotted when an OVM entry message starts (after the await of its
\* checkpoint, the Execution Manager's first and the StateManager's an await
\* later), and when that entry message returns, latched or not and failed or
\* not, both accounts are as the snapshot has them
C27_SnapshotRestored ==
  /\ (/\ frames # << >> /\ isOvmEntryMessage(frames[1].origMsg)
      /\ frames[1].at \notin BeforeSnapshot) =>
       /\ initialEMState = << frames[1].stateEntry[AddrExecutionManager] >>
       /\ initialSMState = << frames[1].stateEntry[AddrStateManager] >>
  /\ (/\ frames # << >> /\ isOvmEntryMessage(frames[1].origMsg)
      /\ frames[1].at = "snapshotSM") =>
       initialEMState = << frames[1].stateEntry[AddrExecutionManager] >>
  /\ (ret # << >> /\ isOvmEntryMessage(Last.origMsg)) =>
       SnapshotTaken(Last) /\ SnapshotRestored(Last)

\* an entry message whose caller's wrapper wrote the Execution Manager's
\* storage has returned without an error
C27_Witness ==
  /\ ret # << >> /\ isOvmEntryMessage(Last.origMsg)
  /\ Last.origMsg.caller = AddrSetter
  /\ Last.result.execResult.exceptionError = NoError
  /\ SnapshotRestored(Last)

\* an entry message that failed without a target has returned
C27_WitnessFailed ==
  /\ ret # << >> /\ isOvmEntryMessage(Last.origMsg)
  /\ Last.result.execResult.exceptionError # NoError
  /\ Last.closed = "revert"

\* the promise of the direct call has settled
Settled == promise.settled # << >>

\* the data has a non-zero byte in bytes [0,16) or [64,80)
NonZeroPadding(data) ==
  \E i \in (0..15) \cup (64..79) : ByteAt(data, i) \notin {0, Undefined}

\* what the precompile reports for its input
Reports(settled, error) ==
  /\ settled.thrown = NoError
  /\ settled.result[1].gasUsed = Bls12381MapG2Gas
  /\ settled.result[1].exceptionError = error

\* the gas is the constant, a wrong length is told before a non-zero byte
ReportsByInput(opts, settled) ==
  /\ settled.thrown = NoError
  /\ settled.result[1].gasUsed = Bls12381MapG2Gas
  /\ BufLen(opts.data) # 128 =>
       Reports(settled, "BLS_12_381_INVALID_INPUT_LENGTH")
  /\ (BufLen(opts.data) = 128 /\ NonZeroPadding(opts.data)) =>
       Reports(settled, "BLS_12_381_POINT_NOT_ON_CURVE")

\* C28: precompile 12 reports the gas Bls12381MapG2Gas for every input; an
\* input that is not 128 bytes long yields BLS_12_381_INVALID_INPUT_LENGTH,
\* whatever its bytes; 128 bytes with a non-zero byte in [0,16) or [64,80)
\* yield BLS_12_381_POINT_NOT_ON_CURVE
C28_MapG2Reports ==
  Settled => ReportsByInput(promise.opts[1], promise.settled[1])

\* an input with _VM that is of the wrong length, or 128 bytes with a non-zero
\* byte in the padding, rejects the promise: no gas and no error is reported
C28_ErrorBranchRejects ==
  (Settled /\ promise.opts[1].hasVM) =>
     LET opts == promise.opts[1]
         bad == BufLen(opts.data) # 128 \/ NonZeroPadding(opts.data)
     IN  /\ bad => /\ promise.settled[1].thrown = "TypeError: VmErrorResult is not a function"
                   /\ promise.settled[1].result = << >>
         /\ ~bad => Reports(promise.settled[1], NoError)

\* 129 bytes, the first of them non-zero, have rejected the promise
C28_WitnessLengthFirst ==
  /\ Settled /\ promise.opts[1].hasVM
  /\ BufLen(promise.opts[1].data) = 129 /\ NonZeroPadding(promise.opts[1].data)
  /\ promise.settled[1].thrown # NoError

\* 128 bytes with byte 79 set have rejected the promise
C28_WitnessPadding ==
  /\ Settled /\ promise.opts[1].hasVM
  /\ promise.opts[1].data = DataWith(128, 79)
  /\ promise.settled[1].thrown # NoError

\* 128 bytes with byte 80 set are mapped
C28_WitnessMapped ==
  /\ Settled /\ promise.opts[1].hasVM
  /\ promise.opts[1].data = DataWith(128, 80)
  /\ Reports(promise.settled[1], NoError)

\* the loop of the interpreter of the innermost message is about to begin an
\* iteration
Looping ==
  /\ frames # << >>
  /\ Top(World).phase = "interp"
  /\ Top(World).at \in {"contract", "settle"}
  /\ Top(World).trap = NoError
  /\ Top(World).programCounter < BufLen(Top(World).msg.code)

\* the loop of the interpreter of the innermost message has emitted the step
\* event of an iteration and is about to call runStep
Hooked ==
  /\ frames # << >>
  /\ Top(World).phase = "interp"
  /\ Top(World).at = "hook"

\* the frame g is the frame f stopped by err where it stood, nothing of f
\* but the gas left touched
StoppedAt(f, g, err) ==
  /\ g.trap = err
  /\ g.programCounter = f.programCounter
  /\ g.stack = f.stack /\ g.memory = f.memory /\ g.logs = f.logs
  /\ g.returnValue = f.returnValue

\* the first half of an iteration, from the frame f and the events before it
\* to the frame g and the events after it: the opcode at PC is read and the
\* step event emitted with what the frame has before the step
Reading(f, g, before, after) ==
  LET opCode == ByteAt(f.msg.code, f.programCounter)
      ev == after[Len(after)]
  IN  /\ after = Append(before, ev)
      /\ ev.name = "step" /\ ev.opCode = opCode
      /\ ev.pc = f.programCounter /\ ev.gasLeft = g.gasLeft /\ ev.stack = g.stack
      /\ g.opCode = opCode /\ g.at = "hook"
      /\ g.programCounter = f.programCounter /\ g.trap = NoError
      /\ g.steps = f.steps
      /\ f.at = "settle" => (g.gasLeft = f.gasLeft /\ g.stack = f.stack)
      /\ f.at = "contract" => (g.gasLeft = f.msg.gasLimit /\ g.stack = << >>)

\* the second half, from the frame f, whose step event ev is, to the frame g:
\* the lookup, the base fee, the advance of PC and the handler
Iteration(f, g, ev) ==
  LET opCode == ByteAt(f.msg.code, f.programCounter)
      opInfo == lookupOpInfo(opCode)
  IN  /\ ev.name = "step" /\ ev.opCode = opCode
      /\ ev.pc = f.programCounter /\ ev.gasLeft = f.gasLeft /\ ev.stack = f.stack
      /\ g.opCode = opCode
      /\ g.steps = f.steps + 1
      /\ IF opInfo.name = "INVALID"
         THEN StoppedAt(f, g, "INVALID_OPCODE") /\ g.gasLeft = f.gasLeft
         ELSE IF f.gasLeft < opInfo.fee
         THEN StoppedAt(f, g, "OUT_OF_GAS") /\ g.gasLeft = 0
         ELSE /\ g.gasLeft <= f.gasLeft - opInfo.fee
              /\ opInfo.name \notin {"JUMP", "JUMPI"} => g.programCounter > f.programCounter
              /\ opInfo.name = "PUSH" =>
                   /\ g.programCounter = f.programCounter + 1 + (opCode - 95)
                   /\ g.stack # << >>
                   /\ Peek(g, 0) = BufToInt(BufSlice(f.msg.code, f.programCounter + 1,
                                                     g.programCounter))
              /\ g.trap = "STACK_UNDERFLOW" =>
                   /\ g.programCounter = f.programCounter + 1
                   /\ g.gasLeft = f.gasLeft - opInfo.fee
                   /\ g.stack = f.stack

\* the opcode at the PC of the innermost message is unknown, or its base fee
\* more than the gas left
FailsBeforeHandler ==
  \/ lookupOpInfo(ByteAt(Top(World).msg.code, Top(World).programCounter)).name = "INVALID"
  \/ Top(World).gasLeft
       < lookupOpInfo(ByteAt(Top(World).msg.code, Top(World).programCounter)).fee

\* C29: an iteration of the step loop reads the opcode at PC, emits the step
\* event with the PC and the gasLeft of before the step, and, the listeners of
\* the event done, looks the opcode up, charges the base fee, advances PC by
\* one and invokes the handler; an unknown opcode yields INVALID_OPCODE with no
\* gas charged, and that and an OUT_OF_GAS on the base fee leave PC at the
\* failing opcode and invoke no handler
C29_StepOrder ==
  [][ /\ Looping =>
           /\ Len(frames') = Len(frames)
           /\ accounts' = accounts
           /\ Reading(Top(World), frames'[Len(frames)], events, events')
      /\ Hooked =>
           /\ Len(frames') >= Len(frames)
           /\ Len(events') >= Len(events)
           /\ SubSeq(events', 1, Len(events)) = events
           /\ Iteration(Top(World), frames'[Len(frames)], events[Len(events)])
           /\ FailsBeforeHandler =>
                /\ accounts' = accounts /\ events' = events
                /\ Len(frames') = Len(frames) ]_vars

\* the event of the last iteration of the innermost interpreter
LastStep == events[Len(events)]

\* an unknown opcode has stopped an interpreter that had run other steps
C29_Witness ==
  /\ frames # << >> /\ events # << >> /\ LastStep.name = "step"
  /\ Top(World).trap = "INVALID_OPCODE" /\ Top(World).steps > 1
  /\ LastStep.pc = Top(World).programCounter /\ LastStep.pc > 0
  /\ LastStep.gasLeft = Top(World).gasLeft

\* the base fee of an opcode was more than the gas left
C29_WitnessBaseFee ==
  /\ frames # << >> /\ events # << >> /\ LastStep.name = "step"
  /\ Top(World).trap = "OUT_OF_GAS"
  /\ LastStep.pc = Top(World).programCounter
  /\ LastStep.gasLeft < lookupOpInfo(LastStep.opCode).fee
  /\ LastStep.gasLeft > 0 /\ Top(World).gasLeft = 0

\* a handler has failed after the fee was charged and PC advanced
C29_WitnessHandler ==
  /\ frames # << >> /\ events # << >> /\ LastStep.name = "step"
  /\ Top(World).trap = "STACK_UNDERFLOW"
  /\ Top(World).programCounter = LastStep.pc + 1
  /\ Top(World).gasLeft = LastStep.gasLeft - lookupOpInfo(LastStep.opCode).fee
  /\ lookupOpInfo(LastStep.opCode).fee > 0

\* the messages in progress that were latched as the target
Latched == { i \in 1..Len(frames) : frames[i].isTargetMessage }

\* the awaits of executeMessage before its latch
BeforeLatch == {"beforeMessage", "checkpoint", "snapshotEM", "snapshotSM", "callerCode",
                "wrapper"}

\* no message of the target pattern is in progress past the latch of its
\* entry, or has returned, with no target latched; at most one message in
\* progress is the latched one, and that while no result is set but, at the
\* await of its afterMessage, its own
FirstIsLatched ==
  /\ \A i \in 1..Len(frames) :
       (isTargetMessage(frames[i].msg) /\ frames[i].at \notin BeforeLatch) =>
         targetMessage # << >>
  /\ \A i \in Latched :
       /\ frames[i].msg = targetMessage[1]
       /\ targetMessageResult =
            IF frames[i].phase = "done" /\ frames[i].at = "afterMessage"
            THEN << frames[i].out >> ELSE << >>
  /\ Cardinality(Latched) <= 1
  /\ (ret # << >> /\ isTargetMessage(Last.msg)) => targetMessage # << >>
  /\ targetMessageResult # << >> => targetMessage # << >>

\* a step that latches: a message of the pattern goes through the latch of
\* its entry while none is latched
LatchStep ==
  /\ targetMessage = << >>
  /\ frames' # << >>
  /\ frames'[Len(frames')].isTargetMessage
  /\ frames'[Len(frames')].msg = targetMessage'[1]
  /\ isTargetMessage(targetMessage'[1])
  /\ targetMessageResult' = targetMessageResult

\* a step in which the latched message object is written to by the entry of
\* the message it is: _targetMessage is still that object
SameObjectStep ==
  /\ targetMessage # << >>
  /\ Len(frames') = Len(frames) /\ frames # << >>
  /\ Top(World).phase = "enter"
  /\ Top(World).isTargetMessage /\ frames'[Len(frames')].isTargetMessage
  /\ Top(World).msg = targetMessage[1]
  /\ frames'[Len(frames')].msg = targetMessage'[1]
  /\ frames'[Len(frames')].origMsg = Top(World).origMsg
  /\ targetMessageResult' = targetMessageResult

\* a step that sets the result: the exit of the latched message goes on from
\* the await of its commit or revert, its checkpoint closed, and sets the
\* result it is to emit with afterMessage and to return
ResultStep ==
  /\ targetMessageResult = << >>
  /\ frames # << >> /\ Top(World).isTargetMessage
  /\ Top(World).msg = targetMessage[1]
  /\ Top(World).phase = "done" /\ Top(World).at = "closed"
  /\ Top(World).closed \in {"commit", "revert"}
  /\ Len(checkpoints) = Top(World).cpClosed - 1
  /\ Len(frames') = Len(frames)
  /\ targetMessageResult' = << frames'[Len(frames)].out >>
  /\ frames'[Len(frames)].out = Top(World).out

\* the latched message has returned the result that is set
ResultReturned ==
  (ret # << >> /\ Last.isTargetMessage) =>
    /\ Last.msg = targetMessage[1]
    /\ Last.targetExit = << Last.result >>
    /\ Last.closed \in {"commit", "revert"}
    /\ Last.cpExit = Last.cpClosed - 1

\* C30: the target message is latched at most once per executor: the first
\* message in execution order of the target pattern becomes the target, no
\* later message replaces it, and targetMessageResult is set only to the
\* result of that message, after its commit or revert
C30_LatchedOnce ==
  [][ /\ FirstIsLatched'
      /\ ResultReturned'
      /\ targetMessage' # targetMessage => (LatchStep \/ SameObjectStep)
      /\ targetMessageResult' # targetMessageResult => ResultStep ]_vars

\* with a target and its result at hand another message of the target pattern
\* has run and returned
C30_Witness ==
  /\ targetMessage # << >> /\ targetMessageResult # << >>
  /\ ret # << >> /\ isTargetMessage(Last.msg) /\ ~Last.isTargetMessage
  /\ Last.msg # targetMessage[1]
  /\ Last.result # targetMessageResult[1]

\* C31: within the step loop other tasks get a turn only between the base-fee
\* deduction of a step and the completion of its handler, never between the
\* reading of the opcode and the base-fee deduction
C31_SuspensionPoints == task.seen \subseteq {"handler"}

\* the same with the wait for runStep counted to the handler's completion
C31_NoTurnBeforeFee == "hook" \notin task.seen

\* another task has taken its turns only while the entry of a child message
\* was under way, the CALL handler of the caller awaiting it
C31_WitnessUnderChild ==
  /\ Len(frames) = 2
  /\ frames[1].phase = "await" /\ frames[1].opCode = 241
  /\ frames[2].phase = "enter"
  /\ task.seen = {"handler"}

\* the child has returned and the caller's runStep still awaits the handler
C31_WitnessAfterChild ==
  /\ Len(frames) = 1
  /\ frames[1].phase = "interp" /\ frames[1].at = "handler"
  /\ frames[1].opCode = 241
  /\ ret # << >> /\ Last.level = 2

-----------------------------------------------------------------------------
(* The order of a create's preparations *)

\* _executeCreate has called runInterpreter, which is about to run the init
\* code from its first step
CreateStarts ==
  /\ frames # << >>
  /\ Top(World).isCreate
  /\ Top(World).phase = "interp"
  /\ Top(World).at = "contract"

\* the newContract event of the create on top, the last event emitted
CreateEvent == events[Len(events)]

\* what the create wrote between the event and the first step
Prepared(bump) ==
  LET to == Top(World).msg.to
      seen == CreateEvent.account
  IN /\ events # << >>
     /\ CreateEvent.name = "newContract"
     /\ CreateEvent.address = to
     /\ seen.storage = NoStorage
     /\ accounts[to].storage = NoStorage
     /\ accounts[to].nonce = seen.nonce + (IF bump THEN 1 ELSE 0)
     /\ accounts[to].balance = seen.balance + Top(World).msg.value

\* C32: when the interpreter of a create is about to take its first step, the
\* storage of the new account was cleared before newContract was emitted, and
\* after the event the nonce was bumped by one exactly when the fork is at
\* least Spurious Dragon and the value was credited, both written to state
C32_CreateOrder == CreateStarts => Prepared(config.spuriousDragon)

\* C32 for the evm.ts executor on a create whose credit does not overflow
C32_OrderWithoutOverflow ==
  (CreateStarts /\ config.executor = "packages/vm/lib/evm"
     /\ CreateEvent.account.balance + Top(World).msg.value <= MAX_INTEGER)
    => Prepared(config.spuriousDragon)

\* a create with value starts its interpreter before Spurious Dragon, on an
\* account that held storage
C32_WitnessStarted ==
  /\ CreateStarts
  /\ ~config.spuriousDragon
  /\ Top(World).msg.value > 0
  /\ config.executor = "packages/vm/lib/evm"

-----------------------------------------------------------------------------
(* A create whose credit overflows *)

\* the newContract event of the create that returned, and whether the credit
\* of its value to the account the event shows overflows
Overflowed(r) ==
  /\ r.isCreate
  /\ \E k \in 1..Len(r.events) :
       /\ r.events[k].name = "newContract"
       /\ r.events[k].address = r.msg.to
       /\ r.events[k].account.balance + r.origMsg.value > MAX_INTEGER

\* C34: a create of the evm.ts executor whose credit overflowed returns
\* without having run the interpreter and without having stored code, and the
\* result of _executeCreate carries VALUE_OVERFLOW
C34_OverflowExitsEarly ==
  \A i \in 1..Len(ret) :
    (config.executor = "packages/vm/lib/evm" /\ Overflowed(ret[i]))
      => /\ ~ret[i].ranInterpreter
         /\ ret[i].stateExit[ret[i].msg.to].code = ret[i].stateEntry[ret[i].msg.to].code
         /\ ret[i].dispatched.execResult.exceptionError = "VALUE_OVERFLOW"

\* C34 for a create without init code
C34_OverflowEmptyCode ==
  \A i \in 1..Len(ret) :
    (config.executor = "packages/vm/lib/evm" /\ Overflowed(ret[i])
       /\ BufLen(ret[i].origMsg.data) = 0)
      => /\ ~ret[i].ranInterpreter
         /\ ret[i].stateExit[ret[i].msg.to].code = ret[i].stateEntry[ret[i].msg.to].code
         /\ ret[i].dispatched.execResult.exceptionError = "VALUE_OVERFLOW"

\* a create without init code whose credit overflowed has returned
C34_WitnessEmptyCode ==
  /\ ret # << >>
  /\ config.executor = "packages/vm/lib/evm"
  /\ Overflowed(ret[1])
  /\ BufLen(ret[1].origMsg.data) = 0

-----------------------------------------------------------------------------
(* The wrapper of the caller at depth 0 *)

\* a step began an executeMessage
Invoked == Len(frames') = Len(frames) + 1

\* the invocation the step began
Begun == frames'[Len(frames')]

\* the top frame of the evm.ts executor waits at the await named
WaitsAt(at) ==
  /\ frames # << >> /\ ~IsLib(World)
  /\ Top(World).phase = "enter" /\ Top(World).at = at

\* the frame the waiting invocation is after the step
Resumed == frames'[Len(frames)]

\* C33: an executeMessage of the evm.ts executor at depth 0 leaves the mock
\* ECDSA wrapper as the code of a caller that had no code and leaves the code
\* of a caller that had some as it was; the checkpoint it opened holds the
\* state without the wrapper; its message is the OVM form of the one it was
\* handed, with the caller the wrapper went to. At depth > 0 the code of the
\* caller and the message stay as they were.
C33_WrapperInstall ==
  [][/\ (Invoked /\ ~IsLib(World)) =>
          LET f == Begun
              m0 == f.origMsg
          IN  /\ accounts'[m0.caller].code = accounts[m0.caller].code
              /\ f.msg.caller = m0.caller /\ f.msg.depth = m0.depth
              /\ frames = << >> => f.msg = m0
              /\ frames # << >> =>
                    /\ m0.depth > 0
                    /\ f.msg.originalTargetAddress = Undefined
                    /\ (m0.to # Undefined => f.msg.to = m0.to /\ f.msg.data = m0.data)
     /\ WaitsAt("callerCode") =>
          LET f == Top(World)
              m0 == f.origMsg
              had == accounts[m0.caller].code
          IN  /\ m0.depth = 0
              /\ accounts'[m0.caller].code = (IF BufLen(had) = 0 THEN MockECDSACode ELSE had)
              /\ checkpoints' = checkpoints
              /\ checkpoints[f.cpEntry + 1] = f.stateEntry
              /\ checkpoints[f.cpEntry + 1][m0.caller].code = had
     /\ (WaitsAt("wrapper") \/ (WaitsAt("callerCode") /\ accounts' = accounts)) =>
          LET f == Resumed
              m0 == f.origMsg
          IN  /\ Len(frames') = Len(frames)
              /\ accounts' = accounts
              /\ f.msg.to = AddrExecutionManager
              /\ f.msg.originalTargetAddress = m0.to
              /\ f.msg.data = BufCat(RunSelector, m0.data)
              /\ f.msg.caller = m0.caller
     /\ (WaitsAt("checkpoint") /\ Top(World).origMsg.depth > 0) =>
          LET f == Resumed
              m0 == f.origMsg
          IN  /\ Len(frames') = Len(frames)
              /\ accounts' = accounts
              /\ f.msg.originalTargetAddress = Undefined
              /\ f.msg.caller = m0.caller
              /\ f.msg.depth = m0.depth
              /\ (m0.to # Undefined => f.msg.to = m0.to /\ f.msg.data = m0.data)]_vars

\* a depth-0 message of a caller without code is in progress: the caller holds
\* the wrapper, the open checkpoint does not
C33_WitnessInstalled ==
  /\ Len(frames) = 1
  /\ ~IsLib(World)
  /\ frames[1].origMsg.depth = 0
  /\ BufLen(frames[1].stateEntry[frames[1].origMsg.caller].code) = 0
  /\ accounts[frames[1].origMsg.caller].code = MockECDSACode
  /\ BufLen(checkpoints[1][frames[1].origMsg.caller].code) = 0

\* a depth-0 message of a caller with code of its own is in progress
C33_WitnessKept ==
  /\ Len(frames) = 1
  /\ ~IsLib(World)
  /\ frames[1].origMsg.depth = 0
  /\ accounts[frames[1].origMsg.caller].code = SetterWrapperCode

\* a message at depth > 0 of a caller without code is in progress
C33_WitnessDeeper ==
  /\ frames # << >>
  /\ ~IsLib(World)
  /\ frames[1].origMsg.depth > 0
  /\ BufLen(accounts[frames[1].origMsg.caller].code) = 0

-----------------------------------------------------------------------------
(* The selfdestruct set of a failed message *)

\* the invocations whose dispatch has produced its result
Dispatched == { i \in 1..Len(frames) : frames[i].phase = "done" }

\* C35: the result of a message that carries an exceptionError has an empty
\* selfdestruct set
C35_FailedWithoutSelfdestruct ==
  \A i \in Dispatched :
    frames[i].result.execResult.exceptionError # NoError
      => frames[i].result.execResult.selfdestruct = {}

\* C35 for the messages whose interpreter ended with the error
C35_FailedRunWithoutSelfdestruct ==
  \A i \in Dispatched :
    frames[i].exceptionError # NoError
      => frames[i].result.execResult.selfdestruct = {}

\* C35 for the parent: its selfdestruct set changes only when a child of it
\* has returned without exceptionError
C35_MergeOnSuccess ==
  [][\A i \in 1..Len(frames) :
       (i <= Len(frames') /\ frames[i].phase = "await"
          /\ frames'[i].selfdestruct # frames[i].selfdestruct)
         => /\ Len(frames) = i + 1
            /\ frames[i + 1].result.execResult.exceptionError = NoError]_vars

\* the interpreter of a message that came with a selfdestruct entry ended with
\* an error, and its result has none
C35_WitnessCleared ==
  \E i \in Dispatched :
    /\ frames[i].origMsg.selfdestruct # {}
    /\ frames[i].exceptionError # NoError
    /\ frames[i].result.execResult.selfdestruct = {}

\* a create that came with a selfdestruct entry ran its init code to the end
\* and failed on the code deposit
C35_WitnessDeposit ==
  \E i \in Dispatched :
    /\ frames[i].isCreate
    /\ frames[i].origMsg.selfdestruct # {}
    /\ frames[i].exceptionError = NoError
    /\ frames[i].result.execResult.exceptionError = "OUT_OF_GAS"

-----------------------------------------------------------------------------
(* Checkpoints and invocations *)

\* the invocations in progress that have made their call of checkpoint()
\* (evm.ts:127) and not yet that of commit() or revert() (237 and 239): all
\* but one at the await of its beforeMessage event and one that waits for its
\* commit or revert, or after it for the listeners of afterMessage
Checkpointed ==
  { i \in 1..Len(frames) : frames[i].at # "beforeMessage" /\ frames[i].closed = "none" }

\* C36: as many checkpoints are open on the state view as executeMessage
\* invocations are in progress, one for each nesting level
C36_OnePerInvocation == Len(checkpoints) = Cardinality(Checkpointed)

\* C36, the half that holds: an invocation in progress never lacks a checkpoint
C36_NeverFewer == Len(checkpoints) >= Cardinality(Checkpointed)

\* a call nested in another is in progress, each with its checkpoint
C36_WitnessNested ==
  /\ Len(frames) = 2
  /\ Len(checkpoints) = 2

-----------------------------------------------------------------------------
(* The latches of a second transaction *)

\* the least member of a non-empty set of numbers
Least(S) == CHOOSE k \in S : \A j \in S : k <= j

\* the beforeMessage events of the target pattern among the events of one
\* executeMessage, and the afterMessage events that answer the first of them
OwnTargets(evs) ==
  { k \in 1..Len(evs) : evs[k].name = "beforeMessage" /\ isTargetMessage(evs[k].message) }
OwnTargetReturns(evs) ==
  { j \in 1..Len(evs) :
      /\ OwnTargets(evs) # {}
      /\ j > Least(OwnTargets(evs))
      /\ evs[j].name = "afterMessage"
      /\ evs[j].level = evs[Least(OwnTargets(evs))].level }

\* the result of a depth-0 message is composed from the target this message
\* has called and that has returned, or carries OVM_ERROR when there is none
ComposedFromOwn(r) ==
  IF OwnTargetReturns(r.events) = {}
  THEN r.result.execResult.exceptionError = "OVM_ERROR"
  ELSE LET tr == r.events[Least(OwnTargetReturns(r.events))].result
       IN  /\ r.result.createdAddress = tr.createdAddress
           /\ r.result.execResult.returnValue = returnData(tr)
           /\ r.result.execResult.exceptionError \in {tr.execResult.exceptionError, "REVERT"}

\* a depth-0 executeMessage has returned to the caller outside
TransactionReturned == ret # << >> /\ frames = << >> /\ Last.depth = 0 /\ ~Last.nested

\* C37: the result of every depth-0 message, the second on its executor
\* included, is composed from the target and the account result of this
\* message, never from those an earlier message has left
C37_LatchesOfThisMessage == TransactionReturned => ComposedFromOwn(Last)

\* C37 for the first message of an executor
C37_FirstMessage == (TransactionReturned /\ calls = 1) => ComposedFromOwn(Last)

\* the first depth-0 message of an executor has returned, composed from the
\* result of the target it has called
C37_WitnessFirst ==
  /\ TransactionReturned
  /\ calls = 1
  /\ OwnTargetReturns(Last.events) # {}
  /\ Last.result.execResult.exceptionError = NoError

\* a second depth-0 message has called a target of its own, which was not
\* latched
C37_WitnessSecond ==
  /\ calls = 2
  /\ frames # << >>
  /\ frames[1].origMsg.depth = 0
  /\ isTargetMessage(Top(World).msg)
  /\ ~Top(World).isTargetMessage

-----------------------------------------------------------------------------
(* The result of a precompile call *)

\* the calls of a precompile whose _executeCall has returned
PrecompileCalls == { i \in Dispatched : frames[i].msg.isCompiled }

\* C38: when _executeCall has read the result of a precompile, it is an
\* ExecResult that is complete: no promise still to settle, and a gasUsed that
\* the result of the message reports
C38_PrecompileResultComplete ==
  \A i \in PrecompileCalls :
    /\ ~frames[i].result.execResult.pending
    /\ frames[i].result.execResult.gasUsed # Undefined
    /\ frames[i].result.gasUsed = frames[i].result.execResult.gasUsed

\* the call of precompile 12 has returned to executeMessage with a promise
\* that rejects
C38_WitnessPending ==
  \E i \in PrecompileCalls :
    /\ frames[i].msg.codeAddress = AddrBls12MapG2
    /\ frames[i].result.execResult.pending
    /\ frames[i].result.execResult.rejected # NoError

-----------------------------------------------------------------------------
(* The end of every run *)

\* Interpreter.run of the invocation at nesting level i is in progress, in
\* its loop or in a handler that awaits a child
Running(i) == Len(frames) >= i /\ frames[i].phase \in {"interp", "await"}

\* the invocation at level i is not running: its run has returned (or ended
\* by a throw that took the invocation with it)
NotRunning(i) == ~Running(i)

\* C39: every Interpreter.run that is in progress eventually returns, at every
\* nesting level
C39_RunReturns == \A i \in 1..MaxLevel : Running(i) ~> NotRunning(i)

\* C39, how a run ends: without error (the program counter at the end of the
\* code, or STOP raised by a handler) or with the error the last step raised
C39_EndOfRun ==
  \A i \in 1..Len(frames) :
    RunEnded(frames[i]) =>
      \/ /\ frames[i].exceptionError = NoError
         /\ \/ frames[i].trap = "STOP"
            \/ /\ frames[i].trap = NoError
               /\ frames[i].programCounter >= BufLen(frames[i].msg.code)
      \/ /\ frames[i].exceptionError # NoError
         /\ frames[i].exceptionError = frames[i].trap

\* no message of the model nests deeper than MaxLevel
C39_Levels == Len(frames) <= MaxLevel

\* the loop that only the gas ends has run eight iterations and ended with
\* OUT_OF_GAS
C39_WitnessOutOfGas ==
  /\ Len(frames) = 1
  /\ frames[1].msg.code = Bytes(LoopCode)
  /\ RunEnded(frames[1])
  /\ frames[1].steps > 24
  /\ frames[1].exceptionError = "OUT_OF_GAS"

====
